---- MODULE Spec2Model ----
(***************************************************************************)
(* Model of the data-analysis assistant:                                   *)
(*   back/data_handler.py     DataHandler    (load, reset, metadata)       *)
(*   back/analysis_engine.py  AnalysisEngine (execute_code, format_result) *)
(*   config.py                Config         (upload limits)               *)
(*   ai/llm_client.py         LLMClient      (streamed completions)        *)
(*   ai/agent.py              DataAnalysisAgent (analyze, dashboard, report)*)
(*   ai/dashboard_generator.py, ai/report_generator.py                     *)
(*   front/dashboard.py       Dashboard      (one Streamlit rerun per      *)
(*                                            user action)                 *)
(* Python objects with identity (the pandas tables the handler and the     *)
(* engine share) live in a heap of object ids; every other Python value is *)
(* a record [cls, val] of its class name and its payload.                  *)
(***************************************************************************)
EXTENDS Integers, Sequences, FiniteSets, TLC

VARIABLES
    df,               \* DataHandler.df: an object id, or NoneRef
    original_df,      \* DataHandler.original_df: an object id, or NoneRef
    heap,             \* object id -> the table object stored there
    analysis_engine,  \* the AnalysisEngine built last: its df and execution_context
    ret,              \* the last call: operation, arguments, and what the caller got
    loaded,           \* history: whether a load has succeeded, and the table as it
                      \* was right after the last one that did
    sys_stdout,       \* sys.stdout: the stream the process prints to
    streams,          \* stream -> the text written to it so far
    calls,            \* session -> the frame of its execute_code call in progress
    session_state     \* st.session_state: the lists a browser session keeps

vars ==
    <<df, original_df, heap, analysis_engine, ret, loaded,
      sys_stdout, streams, calls, session_state>>

\* what the calls of one session, run to completion one after another, leave alone
process_side == <<sys_stdout, streams, calls>>

-----------------------------------------------------------------------------
(* Bounds of the model *)

\* longest executed code string, in statements
MaxStmts == 2

\* execute_code calls each of the two concurrent sessions makes
MaxCalls == 1

\* longest streamed LLM response, in chunks
MaxChunks == 3

\* longest visualization history a session builds
MaxVisualizations == 2

\* longest insight history a session builds among the other user actions
MaxInsights == 2

\* longest insight history a session builds by asking alone
MaxHistory == 12

\* most categorical columns of a data set whose plan is made
MaxCategorical == 5

\* most numeric columns of a data set whose plan is made
MaxNumeric == 2

-----------------------------------------------------------------------------
(* Python values *)

PyNone == [cls |-> "NoneType", val |-> "None"]

\* a name that is not a key of a dict
Unbound == [cls |-> "<unbound>", val |-> ""]

PyInt(n) == [cls |-> "int", val |-> n]

PyStr(s) == [cls |-> "str", val |-> s]

PyBool(b) == [cls |-> "bool", val |-> b]

\* a float with one decimal digit: whole.tenth
PyFloat(whole, tenth) == [cls |-> "float", val |-> <<whole, tenth>>]

\* the classes each class inherits from (itself included), as isinstance sees them:
\* bool is a subclass of int, numpy.float64 of float; numpy.int64 is no subclass of int
Mro(cls) ==
    CASE cls = "bool" -> {"bool", "int", "object"}
      [] cls = "numpy.float64" -> {"numpy.float64", "float", "object"}
      [] cls \in {"ValueError", "IndexError", "SyntaxError", "MemoryError"}
            -> {cls, "Exception", "BaseException", "object"}
      [] cls = "FileNotFoundError"
            -> {cls, "OSError", "Exception", "BaseException", "object"}
      [] cls \in {"EmptyDataError", "ParserError"}
            -> {cls, "ValueError", "Exception", "BaseException", "object"}
      [] cls \in {"DataLoadError", "LLMError"}
            -> {cls, "DataAnalysisError", "Exception", "BaseException", "object"}
      [] cls \in {"APIConnectionError", "AuthenticationError"}
            -> {cls, "APIError", "OpenAIError", "Exception", "BaseException", "object"}
      [] cls = "Exception" -> {"Exception", "BaseException", "object"}
      [] cls \in {"SystemExit", "KeyboardInterrupt"} -> {cls, "BaseException", "object"}
      [] OTHER -> {cls, "object"}

isinstance(obj, classes) == Mro(obj.cls) \cap classes # {}

RECURSIVE Join(_, _)
\* sep.join(items) of a sequence of strings
Join(items, sep) ==
    IF items = <<>> THEN ""
    ELSE IF Len(items) = 1 THEN items[1]
    ELSE items[1] \o sep \o Join(Tail(items), sep)

\* the repr of each int of a sequence
IntReprs(items) == [i \in 1..Len(items) |-> ToString(items[i])]

\* str(obj)
str(obj) ==
    CASE obj.cls \in {"int", "numpy.int64"} -> ToString(obj.val)
      [] obj.cls \in {"float", "numpy.float64"} ->
            ToString(obj.val[1]) \o "." \o ToString(obj.val[2])
      [] obj.cls = "bool" -> IF obj.val THEN "True" ELSE "False"
      [] obj.cls = "str" -> obj.val
      [] obj.cls = "NoneType" -> "None"
      [] obj.cls = "list" -> "[" \o Join(IntReprs(obj.val), ", ") \o "]"
      [] obj.cls = "tuple" -> "(" \o Join(IntReprs(obj.val), ", ") \o ")"
      [] obj.cls = "dict" ->
            "{" \o Join([i \in 1..Len(obj.val) |->
                            "'" \o obj.val[i][1] \o "': " \o ToString(obj.val[i][2])],
                        ", ") \o "}"
      [] obj.cls = "Series" -> obj.val.name \o ": " \o Join(obj.val.data, " ")
      [] obj.cls = "DataFrame" -> Join(obj.val.columns, " ")
      [] isinstance(obj, {"BaseException"}) -> obj.val
      [] OTHER -> "<" \o obj.cls \o " " \o obj.val \o ">"

-----------------------------------------------------------------------------
(* pandas tables and the heap of table objects *)

\* a table's content: column labels and rows of text cells ("" is a missing cell)
Table(columns, rows) == [columns |-> columns, rows |-> rows]

\* pd.read_csv of each well-formed upload the model draws
CsvTables ==
    [wide |-> Table(<<"a", "b">>, << <<"1", "2">> >>),
     tall |-> Table(<<"a">>, << <<"3">>, <<"">> >>),
     huge |-> Table(<<"h">>, << <<"9">> >>),
     mixed |-> Table(<<"City", "Sales">>, << <<"x", "1">>, <<"y", "2">> >>)]

\* enough ids for the objects alive at once: the handler's two, the engine's
\* two, and the two a load constructs before it drops the old ones
ObjIds == {"o1", "o2", "o3", "o4", "o5", "o6"}

NoneRef == "None"

\* a heap slot that holds no object
FreeSlot == [live |-> FALSE, columns |-> <<>>, rows |-> <<>>]

Obj(table) == [live |-> TRUE, columns |-> table.columns, rows |-> table.rows]

\* the content of the table object at ref
Deref(h, ref) == Table(h[ref].columns, h[ref].rows)

\* the id a newly constructed object gets: any slot that holds no object
NewId(h) == CHOOSE id \in ObjIds : ~h[id].live

\* the heap after constructing a new table object with this content
Alloc(h, table) == [h EXCEPT ![NewId(h)] = Obj(table)]

\* first position of ref in a sequence of references that holds it
FirstIndex(refs, ref) == CHOOSE i \in 1..Len(refs) :
                            refs[i] = ref /\ \A j \in 1..(i - 1) : refs[j] # ref

\* Object ids carry no meaning beyond identity: the id of ref once the objects
\* are numbered in the order the references refs reach them
Renamed(refs, ref) ==
    IF ref = NoneRef THEN NoneRef
    ELSE "o" \o ToString(1 + Cardinality(
            {refs[j] : j \in 1..(FirstIndex(refs, ref) - 1)} \ {NoneRef}))

\* the heap with its objects renumbered that way; objects no reference reaches
\* are reclaimed
Collect(h, refs) ==
    [id \in ObjIds |->
        IF \E i \in 1..Len(refs) : Renamed(refs, refs[i]) = id
        THEN h[refs[CHOOSE i \in 1..Len(refs) : Renamed(refs, refs[i]) = id]]
        ELSE FreeSlot]

-----------------------------------------------------------------------------
(* AnalysisEngine.format_result *)

\* Series.to_frame(): a one-column table named after the series
to_frame(series) ==
    [cls |-> "DataFrame",
     val |-> Table(<<series.val.name>>,
                   [i \in 1..Len(series.val.data) |-> <<series.val.data[i]>>])]

is_plotly_figure(obj) == isinstance(obj, {"Figure", "FigureWidget"})

is_dataframe(obj) == isinstance(obj, {"DataFrame"})

is_series(obj) == isinstance(obj, {"Series"})

\* format_result handing a Series back as it is
format_result_unconverted(result) ==
    IF is_plotly_figure(result) THEN [type |-> "plotly_figure", data |-> result]
    ELSE IF is_dataframe(result) THEN [type |-> "dataframe", data |-> result]
    ELSE IF is_series(result) THEN [type |-> "series", data |-> result]
    ELSE IF isinstance(result, {"int", "float", "str", "bool"})
        THEN [type |-> "scalar", data |-> result]
    ELSE IF isinstance(result, {"list", "dict"})
        THEN [type |-> "collection", data |-> result]
    ELSE [type |-> "other", data |-> PyStr(str(result))]

format_result(result) ==
    IF is_plotly_figure(result) THEN [type |-> "plotly_figure", data |-> result]
    ELSE IF is_dataframe(result) THEN [type |-> "dataframe", data |-> result]
    ELSE IF is_series(result) THEN [type |-> "series", data |-> to_frame(result)]
    ELSE IF isinstance(result, {"int", "float", "str", "bool"})
        THEN [type |-> "scalar", data |-> result]
    ELSE IF isinstance(result, {"list", "dict"})
        THEN [type |-> "collection", data |-> result]
    ELSE [type |-> "other", data |-> PyStr(str(result))]

-----------------------------------------------------------------------------
(* Executed code: a code string is a sequence of statements, or does not compile *)

\* no exception is pending
NoExc == [cls |-> "<none>", val |-> ""]

PyExc(cls, msg) == [cls |-> cls, val |-> msg]

Assign(name, value) == [op |-> "assign", name |-> name, value |-> value]

Raise(exc) == [op |-> "raise", name |-> "", value |-> exc]

PrintStmt(text) == [op |-> "print", name |-> "", value |-> PyStr(text)]

\* df.drop(columns=[df.columns[-1]], inplace=True)
DropColumn == [op |-> "drop_column", name |-> "df", value |-> PyNone]

\* df.drop(index=df.index[0], inplace=True)
DropRow == [op |-> "drop_row", name |-> "df", value |-> PyNone]

\* df = df.copy(): the name df bound to a new table object
RebindDf == [op |-> "rebind", name |-> "df", value |-> PyNone]

Code(body) == [syntax_ok |-> TRUE, body |-> body]

\* a code string the compiler rejects
BadSyntax == [syntax_ok |-> FALSE, body |-> <<>>]

\* the effect of one statement on (execution_context, heap, captured stdout)
ExecStmt(stmt, st) ==
    LET ref == st.ctx.df
        obj == st.heap[ref]
    IN  CASE stmt.op = "assign" ->
                [st EXCEPT !.ctx = [st.ctx EXCEPT ![stmt.name] = stmt.value]]
          [] stmt.op = "raise" -> [st EXCEPT !.exc = stmt.value]
          [] stmt.op = "print" -> [st EXCEPT !.out = st.out \o str(stmt.value) \o "\n"]
          [] stmt.op = "drop_column" ->
                IF obj.columns = <<>>
                THEN [st EXCEPT !.exc = PyExc("IndexError",
                        "index -1 is out of bounds for axis 0 with size 0")]
                ELSE [st EXCEPT !.heap = [st.heap EXCEPT ![ref] =
                        [live |-> TRUE,
                         columns |-> SubSeq(obj.columns, 1, Len(obj.columns) - 1),
                         rows |-> [i \in 1..Len(obj.rows) |->
                                     SubSeq(obj.rows[i], 1, Len(obj.columns) - 1)]]]]
          [] stmt.op = "rebind" ->
                [st EXCEPT !.ctx.df = NewId(st.heap),
                           !.heap = Alloc(st.heap, Deref(st.heap, ref))]
          [] stmt.op = "drop_row" ->
                IF obj.rows = <<>>
                THEN [st EXCEPT !.exc = PyExc("IndexError",
                        "index 0 is out of bounds for axis 0 with size 0")]
                ELSE [st EXCEPT !.heap = [st.heap EXCEPT ![ref] =
                        [obj EXCEPT !.rows = Tail(obj.rows)]]]

RECURSIVE ExecBody(_, _)
\* the statements in order, until one raises
ExecBody(body, st) ==
    IF body = <<>> \/ st.exc # NoExc THEN st
    ELSE ExecBody(Tail(body), ExecStmt(Head(body), st))

\* exec(code, execution_context): compile, then run in the context
exec(code, ctx, h) ==
    LET st == [ctx |-> ctx, heap |-> h, out |-> "", exc |-> NoExc]
    IN  IF ~code.syntax_ok
        THEN [st EXCEPT !.exc = PyExc("SyntaxError", "invalid syntax (<string>, line 1)")]
        ELSE ExecBody(code.body, st)

\* traceback.format_exc(): the header and the exception line (the frame
\* lines between them are left out)
format_exc(exc) ==
    "Traceback (most recent call last):\n" \o exc.cls
        \o (IF str(exc) = "" THEN "" ELSE ": " \o str(exc)) \o "\n"

\* AnalysisEngine.execute_code: the context and heap it leaves, the fault exec
\* ended with, and either the returned triple or the exception it lets through
execute_code(engine, h, code) ==
    LET run == exec(code, engine.execution_context, h)
        ctx == run.ctx
        left == [execution_context |-> ctx, heap |-> run.heap, fault |-> run.exc]
    IN  IF run.exc = NoExc
        THEN left @@ [returned |-> TRUE, raised |-> NoExc,
                      result |-> IF ctx.result # Unbound THEN ctx.result
                                 ELSE IF ctx.fig # Unbound THEN ctx.fig
                                 ELSE IF ctx.chart # Unbound THEN ctx.chart
                                 ELSE PyNone,
                      output_text |-> PyStr(run.out),
                      error |-> PyNone]
        ELSE IF isinstance(run.exc, {"Exception"})
        THEN left @@ [returned |-> TRUE, raised |-> NoExc,
                      result |-> PyNone,
                      output_text |-> PyStr(format_exc(run.exc)),
                      error |-> PyStr(str(run.exc))]
        ELSE left @@ [returned |-> FALSE, raised |-> run.exc,
                      result |-> PyNone, output_text |-> PyNone, error |-> PyNone]

-----------------------------------------------------------------------------
(* Config and DataHandler *)

MAX_FILE_SIZE_MB == 100

\* the extensions as strings of characters
ALLOWED_FILE_EXTENSIONS == << <<".", "c", "s", "v">> >>

\* str.lower(), over the letters the model's file names use
lower(s) ==
    [i \in 1..Len(s) |->
        CASE s[i] = "A" -> "a"
          [] s[i] = "B" -> "b"
          [] s[i] = "C" -> "c"
          [] s[i] = "D" -> "d"
          [] s[i] = "E" -> "e"
          [] s[i] = "F" -> "f"
          [] s[i] = "G" -> "g"
          [] s[i] = "H" -> "h"
          [] s[i] = "I" -> "i"
          [] s[i] = "J" -> "j"
          [] s[i] = "K" -> "k"
          [] s[i] = "L" -> "l"
          [] s[i] = "M" -> "m"
          [] s[i] = "N" -> "n"
          [] s[i] = "O" -> "o"
          [] s[i] = "P" -> "p"
          [] s[i] = "Q" -> "q"
          [] s[i] = "R" -> "r"
          [] s[i] = "S" -> "s"
          [] s[i] = "T" -> "t"
          [] s[i] = "U" -> "u"
          [] s[i] = "V" -> "v"
          [] s[i] = "W" -> "w"
          [] s[i] = "X" -> "x"
          [] s[i] = "Y" -> "y"
          [] s[i] = "Z" -> "z"
          [] OTHER -> s[i]]

\* str.endswith()
endswith(s, suffix) ==
    /\ Len(s) >= Len(suffix)
    /\ SubSeq(s, Len(s) - Len(suffix) + 1, Len(s)) = suffix

\* len(file_bytes) / (1024 * 1024), kept as <<numerator, denominator>>: the
\* float division is by a power of two, so it is exact
file_size_mb(file_bytes) == <<file_bytes.len, 1024 * 1024>>

\* quotient >= n
AtLeastMb(quotient, n) == quotient[1] >= n * quotient[2]

\* quotient > n
ExceedsMb(quotient, n) == quotient[1] > n * quotient[2]

\* f"{quotient:.2f}" (ties round up)
Fixed2(quotient) ==
    LET whole == quotient[1] \div quotient[2]
        rest == quotient[1] % quotient[2]
        cents == whole * 100 + (rest * 100 + quotient[2] \div 2) \div quotient[2]
        digits == ToString(cents % 100)
    IN  ToString(cents \div 100) \o "." \o (IF cents % 100 < 10 THEN "0" ELSE "") \o digits

\* pd.read_csv(io.BytesIO(file_bytes)): the table, or the parser's exception
read_csv(file_bytes) ==
    CASE file_bytes.csv = "empty" ->
            [exc |-> PyExc("EmptyDataError", "No columns to parse from file"),
             table |-> Table(<<>>, <<>>)]
      [] file_bytes.csv = "bad" ->
            [exc |-> PyExc("ParserError", "Error tokenizing data. C error: EOF inside string"),
             table |-> Table(<<>>, <<>>)]
      [] OTHER -> [exc |-> NoExc, table |-> CsvTables[file_bytes.csv]]

\* DataFrame.copy(): the content of the new table, or MemoryError for the
\* table that fits in memory once but not twice
copy(table) ==
    IF table = CsvTables.huge
    THEN [exc |-> PyExc("MemoryError", "Unable to allocate 745. MiB for an array"),
          table |-> Table(<<>>, <<>>)]
    ELSE [exc |-> NoExc, table |-> table]

\* the size check of load_from_bytes: the exception it raises, or NoExc
CheckFileSize(file_bytes) ==
    IF ExceedsMb(file_size_mb(file_bytes), MAX_FILE_SIZE_MB)
    THEN PyExc("DataLoadError",
               "File size (" \o Fixed2(file_size_mb(file_bytes)) \o " MB) exceeds maximum ("
                   \o ToString(MAX_FILE_SIZE_MB) \o " MB)")
    ELSE NoExc

\* the extension check of load_from_bytes: the exception it raises, or NoExc
CheckFileExtension(filename) ==
    IF ~\E i \in 1..Len(ALLOWED_FILE_EXTENSIONS) :
            endswith(lower(filename), ALLOWED_FILE_EXTENSIONS[i])
    THEN PyExc("DataLoadError", "File type not allowed. Allowed: ['.csv']")
    ELSE NoExc

\* the except clauses of load_from_bytes: what the caller sees for an exception
\* raised in the try block
LoadBytesHandler(exc, filename) ==
    IF isinstance(exc, {"EmptyDataError"})
    THEN PyExc("DataLoadError", "Empty file: " \o Join(filename, ""))
    ELSE IF isinstance(exc, {"Exception"})
    THEN PyExc("DataLoadError", "Error loading file from bytes: " \o str(exc))
    ELSE exc

\* load_from_bytes keeping the parsed table itself as the snapshot
load_from_bytes_no_copy(file_bytes, filename) ==
    LET same == [df |-> df, original_df |-> original_df, heap |-> heap,
                 value |-> PyNone]
        size_exc == CheckFileSize(file_bytes)
        ext_exc == CheckFileExtension(filename)
        parsed == read_csv(file_bytes)
    IN  IF size_exc # NoExc
        THEN same @@ [raised |-> LoadBytesHandler(size_exc, filename),
                      read_csv_called |-> FALSE]
        ELSE IF ext_exc # NoExc
        THEN same @@ [raised |-> LoadBytesHandler(ext_exc, filename),
                      read_csv_called |-> FALSE]
        ELSE IF parsed.exc # NoExc
        THEN same @@ [raised |-> LoadBytesHandler(parsed.exc, filename),
                      read_csv_called |-> TRUE]
        ELSE [df |-> NewId(heap), original_df |-> NewId(heap),
              heap |-> Alloc(heap, parsed.table),
              value |-> PyBool(TRUE), raised |-> NoExc, read_csv_called |-> TRUE]

\* DataHandler.load_from_bytes: the handler's fields and the heap it leaves, the
\* value returned or the exception raised, and whether the parser was reached
load_from_bytes(file_bytes, filename) ==
    LET same == [df |-> df, original_df |-> original_df, heap |-> heap,
                 value |-> PyNone]
        size_exc == CheckFileSize(file_bytes)
        ext_exc == CheckFileExtension(filename)
        parsed == read_csv(file_bytes)
        with_df == Alloc(heap, parsed.table)
        copied == copy(parsed.table)
        with_copy == Alloc(with_df, copied.table)
    IN  IF size_exc # NoExc
        THEN same @@ [raised |-> LoadBytesHandler(size_exc, filename),
                      read_csv_called |-> FALSE]
        ELSE IF ext_exc # NoExc
        THEN same @@ [raised |-> LoadBytesHandler(ext_exc, filename),
                      read_csv_called |-> FALSE]
        ELSE IF parsed.exc # NoExc
        THEN same @@ [raised |-> LoadBytesHandler(parsed.exc, filename),
                      read_csv_called |-> TRUE]
        ELSE IF copied.exc # NoExc
        THEN [df |-> NewId(heap), original_df |-> original_df, heap |-> with_df,
              value |-> PyNone, raised |-> LoadBytesHandler(copied.exc, filename),
              read_csv_called |-> TRUE]
        ELSE [df |-> NewId(heap), original_df |-> NewId(with_df), heap |-> with_copy,
              value |-> PyBool(TRUE), raised |-> NoExc, read_csv_called |-> TRUE]

\* the files on disk: each path, as a string of characters, and its content
Disk ==
    {[file_path |-> <<"a", ".", "c", "s", "v">>, file_bytes |-> [len |-> 8, csv |-> "wide"]],
     [file_path |-> <<"e", ".", "c", "s", "v">>, file_bytes |-> [len |-> 0, csv |-> "empty"]],
     [file_path |-> <<"x", ".", "c", "s", "v">>, file_bytes |-> [len |-> 5, csv |-> "bad"]],
     [file_path |-> <<"h", ".", "c", "s", "v">>, file_bytes |-> [len |-> MAX_FILE_SIZE_MB * 1024 * 1024, csv |-> "huge"]],
     [file_path |-> <<"a", ".", "t", "x", "t">>, file_bytes |-> [len |-> 6, csv |-> "tall"]],
     [file_path |-> <<"b", ".", "c", "s", "v">>,
      file_bytes |-> [len |-> MAX_FILE_SIZE_MB * 1024 * 1024 + 1, csv |-> "tall"]]}

\* the content of the file at file_path; the path exists
FileBytes(file_path) == (CHOOSE f \in Disk : f.file_path = file_path).file_bytes

\* pd.read_csv(file_path): opens the file, then parses its content
read_csv_path(file_path) ==
    IF \A f \in Disk : f.file_path # file_path
    THEN [exc |-> PyExc("FileNotFoundError",
                        "[Errno 2] No such file or directory: '"
                            \o Join(file_path, "") \o "'"),
          table |-> Table(<<>>, <<>>)]
    ELSE read_csv(FileBytes(file_path))

\* load_from_file's except clauses without the last one
LoadFileHandler_narrow(exc, file_path) ==
    IF isinstance(exc, {"FileNotFoundError"})
    THEN PyExc("DataLoadError", "File not found: " \o Join(file_path, ""))
    ELSE IF isinstance(exc, {"EmptyDataError"})
    THEN PyExc("DataLoadError", "Empty file: " \o Join(file_path, ""))
    ELSE exc

\* the except clauses of load_from_file: what the caller sees for an exception
\* raised in the try block
LoadFileHandler(exc, file_path) ==
    IF isinstance(exc, {"FileNotFoundError"})
    THEN PyExc("DataLoadError", "File not found: " \o Join(file_path, ""))
    ELSE IF isinstance(exc, {"EmptyDataError"})
    THEN PyExc("DataLoadError", "Empty file: " \o Join(file_path, ""))
    ELSE IF isinstance(exc, {"Exception"})
    THEN PyExc("DataLoadError", "Error loading file: " \o str(exc))
    ELSE exc

\* DataHandler.load_from_file: the handler's fields and the heap it leaves, and
\* the value returned or the exception raised
load_from_file(file_path) ==
    LET parsed == read_csv_path(file_path)
        with_df == Alloc(heap, parsed.table)
        copied == copy(parsed.table)
        with_copy == Alloc(with_df, copied.table)
    IN  IF parsed.exc # NoExc
        THEN [df |-> df, original_df |-> original_df, heap |-> heap,
              value |-> PyNone, raised |-> LoadFileHandler(parsed.exc, file_path)]
        ELSE IF copied.exc # NoExc
        THEN [df |-> NewId(heap), original_df |-> original_df, heap |-> with_df,
              value |-> PyNone, raised |-> LoadFileHandler(copied.exc, file_path)]
        ELSE [df |-> NewId(heap), original_df |-> NewId(with_df), heap |-> with_copy,
              value |-> PyBool(TRUE), raised |-> NoExc]

\* reset_data handing out the snapshot itself
reset_data_no_copy ==
    IF original_df = NoneRef
    THEN [df |-> df, heap |-> heap, value |-> PyBool(FALSE)]
    ELSE [df |-> original_df, heap |-> heap, value |-> PyBool(TRUE)]

\* DataHandler.reset_data: the handler's df and the heap it leaves, and the value returned
reset_data ==
    IF original_df = NoneRef
    THEN [df |-> df, heap |-> heap, value |-> PyBool(FALSE)]
    ELSE [df |-> NewId(heap), heap |-> Alloc(heap, Deref(heap, original_df)),
          value |-> PyBool(TRUE)]

\* DataHandler.get_dataframe
get_dataframe == df

\* DataHandler.is_loaded
is_loaded == df # NoneRef

\* DataHandler.get_column_names
get_column_names == IF df = NoneRef THEN <<>> ELSE heap[df].columns

\* the number of missing cells in column c of the table
NullCount(table, c) == Cardinality({i \in 1..Len(table.rows) : table.rows[i][c] = ""})

\* the keys of Series.to_dict() over the column labels: a dict keeps one
\* entry for each distinct label, in the order of first occurrence
DictKeys(labels) ==
    LET first == {c \in 1..Len(labels) : \A b \in 1..(c - 1) : labels[b] # labels[c]}
    IN  SelectSeq([c \in 1..Len(labels) |-> IF c \in first THEN <<labels[c]>> ELSE <<>>],
                  LAMBDA item : item # <<>>)

\* get_info describing the snapshot, where there is one, instead of the current table
get_info_of_snapshot ==
    IF df = NoneRef THEN [keys |-> {}]
    ELSE LET table == Deref(heap, IF original_df = NoneRef THEN df ELSE original_df)
             keys == DictKeys(table.columns)
         IN  [keys |-> {"shape", "columns", "dtypes", "null_counts", "sample"},
              shape |-> <<Len(table.rows), Len(table.columns)>>,
              columns |-> table.columns,
              dtypes |-> [k \in 1..Len(keys) |-> keys[k][1]],
              null_counts |-> [c \in 1..Len(table.columns) |->
                                 <<table.columns[c], NullCount(table, c)>>],
              sample |-> SubSeq(table.rows, 1, IF Len(table.rows) < 5
                                               THEN Len(table.rows) ELSE 5)]

\* DataHandler.get_info; of dtypes only the keys are modelled, and
\* memory_usage is left out
get_info ==
    IF df = NoneRef THEN [keys |-> {}]
    ELSE LET table == Deref(heap, df)
             keys == DictKeys(table.columns)
         IN  [keys |-> {"shape", "columns", "dtypes", "null_counts", "sample"},
              shape |-> <<Len(table.rows), Len(table.columns)>>,
              columns |-> table.columns,
              dtypes |-> [k \in 1..Len(keys) |-> keys[k][1]],
              null_counts |-> [c \in 1..Len(table.columns) |->
                                 <<table.columns[c], NullCount(table, c)>>],
              sample |-> SubSeq(table.rows, 1, IF Len(table.rows) < 5
                                               THEN Len(table.rows) ELSE 5)]

-----------------------------------------------------------------------------
(* AutoDashboardGenerator: the structure of the data and the plan of slots *)

\* the characters of the column labels and dtype names the model draws
Letters(s) ==
    CASE s = "Gender" -> <<"G", "e", "n", "d", "e", "r">>
      [] s = "JobRole" -> <<"J", "o", "b", "R", "o", "l", "e">>
      [] s = "Level" -> <<"L", "e", "v", "e", "l">>
      [] s = "AgeGroup" -> <<"A", "g", "e", "G", "r", "o", "u", "p">>
      [] s = "Year" -> <<"Y", "e", "a", "r">>
      [] s = "Sales" -> <<"S", "a", "l", "e", "s">>
      [] s = "Count" -> <<"C", "o", "u", "n", "t">>
      [] s = "Date" -> <<"D", "a", "t", "e">>
      [] s = "City" -> <<"C", "i", "t", "y">>
      [] s = "a" -> <<"a">>
      [] s = "b" -> <<"b">>
      [] s = "h" -> <<"h">>
      [] s = "int64" -> <<"i", "n", "t", "6", "4">>
      [] s = "float64" -> <<"f", "l", "o", "a", "t", "6", "4">>
      [] s = "object" -> <<"o", "b", "j", "e", "c", "t">>
      [] s = "bool" -> <<"b", "o", "o", "l">>
      [] s = "datetime64[ns]" -> <<"d", "a", "t", "e", "t", "i", "m", "e", "6", "4", "[", "n", "s", "]">>

\* word in text
contains(text, word) ==
    \E i \in 1..(Len(text) - Len(word) + 1) : SubSeq(text, i, i + Len(word) - 1) = word

\* seq[start:stop]
slice(seq, start, stop) ==
    LET last == IF stop < Len(seq) THEN stop ELSE Len(seq)
    IN  [i \in 1..(IF last > start THEN last - start ELSE 0) |-> seq[start + i]]

\* [columns[c] for c in range(len(columns)) if keep[c]]
Kept(columns, keep) ==
    LET picked == SelectSeq([c \in 1..Len(columns) |->
                                IF keep[c] THEN <<columns[c]>> ELSE <<>>],
                            LAMBDA item : item # <<>>)
    IN  [i \in 1..Len(picked) |-> picked[i][1]]

\* the dtype pd.read_csv infers for a column from its cells: int64 when
\* every cell is an integer, float64 when some are missing, object otherwise
InferredDtype(table, c) ==
    LET cells == {table.rows[i][c] : i \in 1..Len(table.rows)}
        integers == {"1", "2", "3", "9"}
    IN  IF cells = {} THEN "object"
        ELSE IF cells \subseteq integers THEN "int64"
        ELSE IF cells \subseteq integers \cup {""} THEN "float64"
        ELSE "object"

\* the branch of analyze_data_structure a dtype name takes
DtypeKind(dtype) ==
    LET name == lower(Letters(dtype))
    IN  IF contains(name, <<"i", "n", "t">>) \/ contains(name, <<"f", "l", "o", "a", "t">>)
        THEN "numeric"
        ELSE IF contains(name, <<"d", "a", "t", "e">>) \/ contains(name, <<"t", "i", "m", "e">>)
        THEN "date"
        ELSE "categorical"

\* AutoDashboardGenerator.analyze_data_structure over get_info()'s columns and
\* their dtypes (column labels are distinct, so dtypes.get(col) is dtypes[c])
analyze_data_structure(columns, dtypes, total_rows) ==
    [numeric_cols |->
        Kept(columns, [c \in 1..Len(columns) |-> DtypeKind(dtypes[c]) = "numeric"]),
     categorical_cols |->
        Kept(columns, [c \in 1..Len(columns) |-> DtypeKind(dtypes[c]) = "categorical"]),
     date_cols |->
        Kept(columns, [c \in 1..Len(columns) |-> DtypeKind(dtypes[c]) = "date"]),
     total_cols |-> Len(columns),
     total_rows |-> total_rows]

\* the words of slot 1
GenderWords ==
    {<<"g", "e", "n", "d", "e", "r">>,
     <<"s", "e", "x">>,
     <<"t", "y", "p", "e">>,
     <<"c", "a", "t", "e", "g", "o", "r", "y">>,
     <<"s", "t", "a", "t", "u", "s">>}

\* the words of slot 2
RoleWords ==
    {<<"r", "o", "l", "e">>,
     <<"j", "o", "b">>,
     <<"p", "o", "s", "i", "t", "i", "o", "n">>,
     <<"t", "i", "t", "l", "e">>,
     <<"c", "a", "t", "e", "g", "o", "r", "y">>}

\* the words of slot 3
EducationWords ==
    {<<"e", "d", "u", "c", "a", "t", "i", "o", "n">>,
     <<"l", "e", "v", "e", "l">>,
     <<"d", "e", "g", "r", "e", "e">>,
     <<"q", "u", "a", "l", "i", "f", "i", "c", "a", "t", "i", "o", "n">>,
     <<"f", "i", "e", "l", "d">>}

\* the words of slot 5
AgeWords ==
    {<<"a", "g", "e">>,
     <<"r", "a", "n", "g", "e">>,
     <<"g", "r", "o", "u", "p">>,
     <<"b", "r", "a", "c", "k", "e", "t">>}

\* the words of slot 6
YearsWords ==
    {<<"y", "e", "a", "r">>,
     <<"t", "i", "m", "e">>,
     <<"p", "e", "r", "i", "o", "d">>,
     <<"d", "u", "r", "a", "t", "i", "o", "n">>}

\* the words of slot 7
SalaryWords ==
    {<<"s", "a", "l", "a", "r", "y">>,
     <<"a", "m", "o", "u", "n", "t">>,
     <<"p", "r", "i", "c", "e">>,
     <<"c", "o", "s", "t">>,
     <<"v", "a", "l", "u", "e">>}

\* [c for c in cols if any(word in c.lower() for word in words)]
Matching(cols, words) ==
    SelectSeq(cols, LAMBDA c : \E word \in words : contains(lower(Letters(c)), word))

\* one entry of the plan
PlanSlot(type, cols, title, description, subtype, position) ==
    [type |-> type, columns |-> cols, title |-> title, description |-> description,
     subtype |-> subtype, position |-> position]

\* 1. top right: donut chart
TopRight(numeric_cols, categorical_cols) ==
    LET matched == Matching(categorical_cols, GenderWords)
        gender_cols == IF matched = <<>> THEN slice(categorical_cols, 0, 1) ELSE matched
    IN  IF categorical_cols # <<>> /\ numeric_cols # <<>> /\ gender_cols # <<>>
        THEN <<PlanSlot("pie", <<gender_cols[1], numeric_cols[1]>>,
                        "Distribution by " \o gender_cols[1],
                        "Breakdown by " \o gender_cols[1], "donut", "top_right")>>
        ELSE <<>>

\* 2. middle left: horizontal bar
MiddleLeft(numeric_cols, categorical_cols) ==
    LET matched == Matching(categorical_cols, RoleWords)
        role_cols == IF matched = <<>>
                     THEN (IF Len(categorical_cols) > 0 THEN slice(categorical_cols, 0, 1)
                           ELSE <<>>)
                     ELSE matched
    IN  IF categorical_cols # <<>> /\ numeric_cols # <<>> /\ role_cols # <<>>
        THEN <<PlanSlot("bar", <<role_cols[1], numeric_cols[1]>>,
                        "Distribution by " \o role_cols[1],
                        "Top " \o role_cols[1] \o " breakdown", "horizontal",
                        "middle_left")>>
        ELSE <<>>

\* 3. middle center: donut chart
MiddleCenter(numeric_cols, categorical_cols) ==
    LET matched == Matching(categorical_cols, EducationWords)
        edu_cols == IF matched = <<>> /\ Len(categorical_cols) > 1
                    THEN slice(categorical_cols, 1, 2) ELSE matched
    IN  IF categorical_cols # <<>> /\ numeric_cols # <<>> /\ edu_cols # <<>>
        THEN <<PlanSlot("pie",
                        <<edu_cols[1], IF Len(numeric_cols) > 1 THEN numeric_cols[2]
                                       ELSE numeric_cols[1]>>,
                        "Distribution by " \o edu_cols[1],
                        "Breakdown by " \o edu_cols[1], "donut", "middle_center")>>
        ELSE <<>>

\* 4. middle right: summary table
MiddleRight(numeric_cols, categorical_cols) ==
    IF categorical_cols # <<>> /\ numeric_cols # <<>>
    THEN <<PlanSlot("table", <<categorical_cols[1], numeric_cols[1]>>,
                    "Summary by " \o categorical_cols[1], "Detailed breakdown table",
                    "summary", "middle_right")>>
    ELSE <<>>

\* 5. bottom left: vertical bar
BottomLeft(numeric_cols, categorical_cols) ==
    LET matched == Matching(categorical_cols, AgeWords)
        age_cols == IF matched = <<>> /\ Len(categorical_cols) > 2
                    THEN slice(categorical_cols, 2, 3)
                    ELSE IF matched = <<>> THEN slice(categorical_cols, 0, 1)
                    ELSE matched
    IN  IF categorical_cols # <<>> /\ numeric_cols # <<>> /\ age_cols # <<>>
        THEN <<PlanSlot("bar", <<age_cols[1], numeric_cols[1]>>,
                        "Distribution by " \o age_cols[1],
                        "Breakdown by " \o age_cols[1], "vertical", "bottom_left")>>
        ELSE <<>>

\* 6. bottom center: area chart over the first date column
TrendByDate(numeric_cols, date_cols) ==
    IF date_cols # <<>> /\ numeric_cols # <<>>
    THEN <<PlanSlot("area", <<date_cols[1], numeric_cols[1]>>,
                    "Trend by " \o date_cols[1], "Trend over time", "stacked",
                    "bottom_center")>>
    ELSE <<>>

\* 6. bottom center: area chart over a categorical column
TrendByCategory(numeric_cols, categorical_cols) ==
    LET matched == Matching(categorical_cols, YearsWords)
        years_cols == IF matched = <<>> /\ Len(categorical_cols) > 3
                      THEN slice(categorical_cols, 3, 4)
                      ELSE IF matched = <<>> THEN slice(categorical_cols, 0, 1)
                      ELSE matched
    IN  IF categorical_cols # <<>> /\ numeric_cols # <<>> /\ years_cols # <<>>
        THEN <<PlanSlot("area", <<years_cols[1], numeric_cols[1]>>,
                        "Distribution by " \o years_cols[1], "Trend analysis", "stacked",
                        "bottom_center")>>
        ELSE <<>>

\* 7. bottom right: horizontal bar
BottomRight(numeric_cols, categorical_cols) ==
    LET matched == Matching(categorical_cols, SalaryWords)
        salary_cols == IF matched = <<>> /\ Len(categorical_cols) > 4
                       THEN slice(categorical_cols, 4, 5)
                       ELSE IF matched = <<>> THEN slice(categorical_cols, 0, 1)
                       ELSE matched
    IN  IF categorical_cols # <<>> /\ numeric_cols # <<>> /\ salary_cols # <<>>
        THEN <<PlanSlot("bar", <<salary_cols[1], numeric_cols[1]>>,
                        "Distribution by " \o salary_cols[1],
                        "Breakdown by " \o salary_cols[1], "horizontal", "bottom_right")>>
        ELSE <<>>

\* _plan_visualizations with both area charts planned when the data has date
\* columns and categorical columns
_plan_visualizations_both_trends(structure) ==
    LET numeric_cols == structure.numeric_cols
        categorical_cols == structure.categorical_cols
        plan == TopRight(numeric_cols, categorical_cols)
                \o MiddleLeft(numeric_cols, categorical_cols)
                \o MiddleCenter(numeric_cols, categorical_cols)
                \o MiddleRight(numeric_cols, categorical_cols)
                \o BottomLeft(numeric_cols, categorical_cols)
                \o TrendByDate(numeric_cols, structure.date_cols)
                \o TrendByCategory(numeric_cols, categorical_cols)
                \o BottomRight(numeric_cols, categorical_cols)
    IN  slice(plan, 0, 7)

\* AutoDashboardGenerator._plan_visualizations
_plan_visualizations(structure) ==
    LET numeric_cols == structure.numeric_cols
        categorical_cols == structure.categorical_cols
        plan == TopRight(numeric_cols, categorical_cols)
                \o MiddleLeft(numeric_cols, categorical_cols)
                \o MiddleCenter(numeric_cols, categorical_cols)
                \o MiddleRight(numeric_cols, categorical_cols)
                \o BottomLeft(numeric_cols, categorical_cols)
                \o (IF structure.date_cols # <<>> /\ numeric_cols # <<>>
                    THEN TrendByDate(numeric_cols, structure.date_cols)
                    ELSE TrendByCategory(numeric_cols, categorical_cols))
                \o BottomRight(numeric_cols, categorical_cols)
    IN  slice(plan, 0, 7)

-----------------------------------------------------------------------------
(* BasetenLLMClient: the request as the OpenAI client answers it *)

\* a streamed chunk carrying text
Content(text) == [kind |-> "content", content |-> text, exc |-> NoExc]

\* a chunk whose delta has no content (a role or tool-call delta)
NullContent == [kind |-> "null", content |-> "", exc |-> NoExc]

\* a chunk with no choices (the usage statistics stream_options asks for)
NoChoices == [kind |-> "no_choices", content |-> "", exc |-> NoExc]

\* the stream raising instead of delivering its next chunk
Broken(exc) == [kind |-> "raise", content |-> "", exc |-> exc]

\* client.chat.completions.create(...): the exception it raises, or the
\* stream of chunks it returns
Completion(create_exc, chunks) == [create_exc |-> create_exc, chunks |-> chunks]

RECURSIVE Consume(_, _)
\* the for loop of chat_completion over the rest of the stream: what it has
\* yielded, and the exception that ended it
Consume(chunks, yielded) ==
    IF chunks = <<>> THEN [yielded |-> yielded, exc |-> NoExc]
    ELSE LET chunk == Head(chunks)
         IN  IF chunk.kind = "raise" THEN [yielded |-> yielded, exc |-> chunk.exc]
             ELSE IF chunk.kind = "content"
             THEN Consume(Tail(chunks), Append(yielded, chunk.content))
             ELSE Consume(Tail(chunks), yielded)

\* BasetenLLMClient.chat_completion(stream=True): the chunks the generator
\* yields before it ends, and the exception it ends with
chat_completion(completion) ==
    LET run == IF completion.create_exc # NoExc
               THEN [yielded |-> <<>>, exc |-> completion.create_exc]
               ELSE Consume(completion.chunks, <<>>)
    IN  [yielded |-> run.yielded,
         raised |-> IF run.exc = NoExc THEN NoExc
                    ELSE IF isinstance(run.exc, {"Exception"})
                    THEN PyExc("LLMError", "LLM API error: " \o str(run.exc))
                    ELSE run.exc]

\* get_full_response returning what arrived before the fault
get_full_response_partial(completion) ==
    [value |-> PyStr(Join(chat_completion(completion).yielded, "")), raised |-> NoExc]

\* BasetenLLMClient.get_full_response: the text returned, or the exception raised
get_full_response(completion) ==
    LET stream == chat_completion(completion)
    IN  IF stream.raised # NoExc
        THEN [value |-> PyNone, raised |-> stream.raised]
        ELSE [value |-> PyStr(Join(stream.yielded, "")), raised |-> NoExc]

\* AgentExecutor.invoke: the exception it raises, or the dict it returns, with
\* an output entry or without
Invoked(exc, has_output, output) == [exc |-> exc, has_output |-> has_output, output |-> output]

-----------------------------------------------------------------------------
(* Inputs the model draws *)

Fig1 == [cls |-> "Figure", val |-> "fig1"]

Fig2 == [cls |-> "Figure", val |-> "fig2"]

Widget == [cls |-> "FigureWidget", val |-> "widget"]

Frame == [cls |-> "DataFrame", val |-> CsvTables.tall]

Ser == [cls |-> "Series", val |-> [name |-> "a", data |-> <<"3", "">>]]

NpInt(n) == [cls |-> "numpy.int64", val |-> n]

NpFloat(whole, tenth) == [cls |-> "numpy.float64", val |-> <<whole, tenth>>]

\* the numeric scalars code computes from a table: len(df), df['a'].sum(), df['a'].mean(), ...
NumericScalars == {PyInt(6), PyFloat(2, 5), NpInt(6), NpFloat(2, 5)}

\* one value of every runtime shape format_result tells apart, and of some it does not
Values ==
    NumericScalars \cup
    {Fig1, Fig2, Widget, Frame, Ser, PyStr("abc"), PyBool(TRUE),
     [cls |-> "list", val |-> <<1, 2>>], [cls |-> "dict", val |-> << <<"k", 1>> >>],
     [cls |-> "tuple", val |-> <<1, 2>>], PyNone}

\* all sequences over S of length at most n
SeqsUpTo(S, n) == UNION {[1..k -> S] : k \in 0..n}

\* statements that bind the conventional names, and a raise
CoreStmts ==
    {Assign("result", PyInt(6)), Assign("fig", Fig1), Assign("chart", Fig2),
     Raise(PyExc("ValueError", "boom"))}

\* statements a code string ends with: other bindings of result, a print, other faults
LastStmts ==
    {Assign("result", v) : v \in NumericScalars \ {PyInt(6)}}
    \cup {PrintStmt("hi"), Raise(PyExc("ValueError", "")), Raise(PyExc("SystemExit", "1"))}

\* the code strings the engine is given: up to MaxStmts statements, and one
\* that does not compile
EngineCodes ==
    {Code(body) : body \in SeqsUpTo(CoreStmts, MaxStmts)}
    \cup {Code(Append(body, last)) : body \in SeqsUpTo(CoreStmts, MaxStmts - 1),
                                     last \in LastStmts}
    \cup {BadSyntax}

\* code strings that change the table in place, and may raise after it
DataCodes ==
    {Code(body) : body \in SeqsUpTo({DropColumn, DropRow}, MaxStmts)}
    \cup {Code(<<DropColumn, Raise(PyExc("ValueError", "boom"))>>)}

\* code strings that rebind the name df, or change the table in place
BindingCodes ==
    {Code(<<RebindDf>>), Code(<<DropRow>>), Code(<<DropColumn>>),
     Code(<<RebindDf, DropRow>>)}

\* the faults of the OpenAI client: no connection, a rejected key
ApiFaults ==
    {PyExc("APIConnectionError", "Connection error."),
     PyExc("AuthenticationError", "Error code: 401")}

\* the chunks a stream delivers
Chunks ==
    {Content("SELECT"), Content(" 1"), NullContent, NoChoices,
     Broken(PyExc("APIConnectionError", "Connection error."))}

\* the answers of the OpenAI client to a request
Completions ==
    {Completion(NoExc, chunks) : chunks \in SeqsUpTo(Chunks, MaxChunks)}
    \cup {Completion(exc, <<>>) : exc \in ApiFaults}

\* the LLM answering a request with text in one chunk
Answered(text) == Completion(NoExc, <<Content(text)>>)

\* the LLM service refusing the connection
Refused == Completion(PyExc("APIConnectionError", "Connection error."), <<>>)

\* the LLM's answer to the request for the code of a slot: a chart
ChartAnswer == Answered("fig = px.bar(df)")

\* the answers to the request for the code of a slot: a chart, code that
\* produces no value, code that computes a number, code that fails, and no
\* answer at all
SlotAnswers ==
    {ChartAnswer, Answered("print(df.shape)"), Answered("result = 6"),
     Answered("raise ValueError('boom')"), Refused}

\* the LLM's answers to the four requests of a report: all answered, or the
\* first or the third refused
ReportAnswers ==
    {[i \in 1..4 |-> IF i = k THEN Refused ELSE Answered("text")] : k \in {0, 1, 3}}

\* what the agent executor does with a query: an answer, a failed LLM call
Invocations ==
    {Invoked(NoExc, TRUE, "answer"),
     Invoked(PyExc("APIConnectionError", "Connection error."), FALSE, "")}

\* manual code of every kind of result, and code that fails
ChartCodes ==
    {Code(<<Assign(name, Fig1)>>) : name \in {"result", "fig", "chart"}}
    \cup {Code(<<Assign("result", value)>>) :
            value \in {Widget, Frame, Ser, PyInt(6), [cls |-> "list", val |-> <<1, 2>>],
                       [cls |-> "tuple", val |-> <<1, 2>>], PyNone}}
    \cup {Code(<<PrintStmt("hi")>>), Code(<<Raise(PyExc("ValueError", "boom"))>>),
          Code(<<Raise(PyExc("ValueError", ""))>>),
          Code(<<Assign("fig", Fig2), Raise(PyExc("ValueError", "boom"))>>), BadSyntax}

MaxBytes == MAX_FILE_SIZE_MB * 1024 * 1024

CsvName == <<"a", ".", "c", "s", "v">>

\* uploads: the bytes (their length and what the parser makes of them) and the file name
Uploads ==
    {[file_bytes |-> [len |-> 8, csv |-> "wide"], filename |-> CsvName],
     [file_bytes |-> [len |-> 6, csv |-> "tall"], filename |-> <<"A", ".", "C", "S", "V">>],
     [file_bytes |-> [len |-> 0, csv |-> "empty"], filename |-> CsvName],
     [file_bytes |-> [len |-> 5, csv |-> "bad"], filename |-> CsvName],
     [file_bytes |-> [len |-> 8, csv |-> "wide"], filename |-> <<"a", ".", "t", "x", "t">>],
     [file_bytes |-> [len |-> 8, csv |-> "wide"], filename |-> <<"c", "s", "v">>],
     [file_bytes |-> [len |-> 6, csv |-> "tall"], filename |-> <<"a", ".", "c", "s", "v", "x">>],
     [file_bytes |-> [len |-> MaxBytes, csv |-> "wide"], filename |-> CsvName],
     [file_bytes |-> [len |-> MaxBytes + 1, csv |-> "tall"], filename |-> CsvName],
     [file_bytes |-> [len |-> MaxBytes + 1, csv |-> "wide"],
      filename |-> <<"a", ".", "t", "x", "t">>],
     [file_bytes |-> [len |-> MaxBytes, csv |-> "huge"], filename |-> CsvName]}

\* the upload of a well-formed file
WideUpload == [file_bytes |-> [len |-> 8, csv |-> "wide"], filename |-> CsvName]

\* what the user puts into the uploader: a well-formed file, a malformed one
UiUploads == {WideUpload, [file_bytes |-> [len |-> 5, csv |-> "bad"], filename |-> CsvName]}

\* the upload of a well-formed file with a text column
MixedUpload == [file_bytes |-> [len |-> 16, csv |-> "mixed"], filename |-> CsvName]

\* what the user puts into the uploader before asking the AI: a well-formed
\* file with a text column, a malformed one
AgentUploads == {MixedUpload, [file_bytes |-> [len |-> 5, csv |-> "bad"], filename |-> CsvName]}

\* the paths load_from_file is given: every file on disk, and a path to nothing
Paths == {f.file_path : f \in Disk} \cup {<<"m", ".", "c", "s", "v">>}

\* the file uploader holding no file
NoFile == [file_bytes |-> [len |-> 0, csv |-> "none"], filename |-> <<>>]

\* Dashboard.__init__ on a new session: the keys of st.session_state other
\* than data_handler and analysis_engine (they are the variables above), and
\* the value of the file uploader widget
NewSessionState ==
    [uploaded_file |-> NoFile, agent |-> FALSE, visualizations |-> <<>>,
     insights |-> <<>>, auto_dashboard |-> PyNone, report |-> PyNone]

\* the browser sessions that run at the same time
Sessions == {"s1", "s2"}

\* the stream sys.stdout is when the process starts
Console == "<stdout>"

\* the StringIO object the call-th call of a session constructs
StringIO(session, call) == session \o "/" \o ToString(call)

Streams == {Console} \cup {StringIO(session, call) : session \in Sessions, call \in 1..MaxCalls}

\* the frame of a session that has not called execute_code
NoCall ==
    [line |-> "idle", made |-> 0, code |-> Code(<<>>), next |-> 1,
     execution_context |-> [df |-> NoneRef, result |-> Unbound, fig |-> Unbound,
                            chart |-> Unbound],
     old_stdout |-> Console, captured_output |-> Console, fault |-> NoExc,
     result |-> PyNone, output_text |-> PyNone, error |-> PyNone]

\* the code a session executes: it prints the session's own mark, up to
\* MaxStmts times, or prints it and raises
SessionCodes(session) ==
    {Code([i \in 1..n |-> PrintStmt(session)]) : n \in 1..MaxStmts}
    \cup {Code(<<PrintStmt(session), Raise(PyExc("ValueError", "boom"))>>)}

-----------------------------------------------------------------------------
(* The state machine: one action per public method *)

NoEngine ==
    [built |-> FALSE, df |-> NoneRef,
     execution_context |-> [df |-> NoneRef, result |-> Unbound, fig |-> Unbound,
                            chart |-> Unbound]]

\* every reference the handler and the engine hold, in a fixed order
Roots(d, o, engine) == <<d, o, engine.df, engine.execution_context.df>>

\* the next state of the handler, the engine and the heap
Settle(d, o, engine, h) ==
    LET refs == Roots(d, o, engine)
    IN  /\ df' = Renamed(refs, d)
        /\ original_df' = Renamed(refs, o)
        /\ analysis_engine' =
                [engine EXCEPT !.df = Renamed(refs, @),
                               !.execution_context.df = Renamed(refs, @)]
        /\ heap' = Collect(h, refs)

Init ==
    /\ df = NoneRef
    /\ original_df = NoneRef
    /\ heap = [id \in ObjIds |-> FreeSlot]
    /\ analysis_engine = NoEngine
    /\ ret = [op |-> "DataHandler"]
    /\ loaded = [ok |-> FALSE, table |-> Table(<<>>, <<>>)]
    /\ sys_stdout = Console
    /\ streams = [stream \in Streams |-> ""]
    /\ calls = [session \in Sessions |-> NoCall]
    /\ session_state = NewSessionState

LoadFromBytes(file_bytes, filename) ==
    LET r == load_from_bytes(file_bytes, filename)
    IN  /\ Settle(r.df, r.original_df, analysis_engine, r.heap)
        /\ loaded' = IF r.raised = NoExc
                      THEN [ok |-> TRUE, table |-> Deref(r.heap, r.df)]
                      ELSE loaded
        /\ ret' = [op |-> "load_from_bytes", file_bytes |-> file_bytes,
                   filename |-> filename, raised |-> r.raised, value |-> r.value,
                   read_csv_called |-> r.read_csv_called]
        /\ UNCHANGED <<process_side, session_state>>

LoadFromFile(file_path) ==
    LET r == load_from_file(file_path)
    IN  /\ Settle(r.df, r.original_df, analysis_engine, r.heap)
        /\ loaded' = IF r.raised = NoExc
                      THEN [ok |-> TRUE, table |-> Deref(r.heap, r.df)]
                      ELSE loaded
        /\ ret' = [op |-> "load_from_file", file_path |-> file_path,
                   raised |-> r.raised, value |-> r.value]
        /\ UNCHANGED <<process_side, session_state>>

ResetData ==
    LET r == reset_data
    IN  /\ Settle(r.df, original_df, analysis_engine, r.heap)
        /\ ret' = [op |-> "reset_data", value |-> r.value,
                   before |-> IF is_loaded THEN Deref(heap, df) ELSE Table(<<>>, <<>>)]
        /\ UNCHANGED <<loaded, process_side, session_state>>

GetDataframe ==
    /\ ret' = [op |-> "get_dataframe", value |-> get_dataframe]
    /\ UNCHANGED <<df, original_df, heap, analysis_engine, loaded>>
    /\ UNCHANGED <<process_side, session_state>>

GetInfo ==
    /\ ret' = [op |-> "get_info", value |-> get_info]
    /\ UNCHANGED <<df, original_df, heap, analysis_engine, loaded>>
    /\ UNCHANGED <<process_side, session_state>>

GetColumnNames ==
    /\ ret' = [op |-> "get_column_names", value |-> get_column_names]
    /\ UNCHANGED <<df, original_df, heap, analysis_engine, loaded>>
    /\ UNCHANGED <<process_side, session_state>>

IsLoaded ==
    /\ ret' = [op |-> "is_loaded", value |-> is_loaded]
    /\ UNCHANGED <<df, original_df, heap, analysis_engine, loaded>>
    /\ UNCHANGED <<process_side, session_state>>

\* AnalysisEngine.__init__(dataframe)
AnalysisEngine(dataframe) ==
    [built |-> TRUE, df |-> dataframe,
     execution_context |-> [df |-> dataframe, result |-> Unbound, fig |-> Unbound,
                            chart |-> Unbound]]

\* AnalysisEngine(data_handler.get_dataframe()), as its callers build it once a
\* table is loaded
EngineInit ==
    /\ is_loaded
    /\ Settle(df, original_df, AnalysisEngine(get_dataframe), heap)
    /\ ret' = [op |-> "AnalysisEngine"]
    /\ UNCHANGED <<loaded, process_side, session_state>>

ExecuteCode(code) ==
    /\ analysis_engine.built
    /\ LET r == execute_code(analysis_engine, heap, code)
       IN  /\ Settle(df, original_df,
                     [analysis_engine EXCEPT !.execution_context = r.execution_context],
                     r.heap)
           /\ ret' = [op |-> "execute_code", code |-> code, fault |-> r.fault,
                      returned |-> r.returned,
                      raised |-> r.raised, result |-> r.result,
                      output_text |-> r.output_text, error |-> r.error]
    /\ UNCHANGED <<loaded, process_side, session_state>>

FormatResult(result) ==
    /\ analysis_engine.built
    /\ ret' = [op |-> "format_result", result |-> result, value |-> format_result(result)]
    /\ UNCHANGED <<df, original_df, heap, analysis_engine, loaded>>
    /\ UNCHANGED <<process_side, session_state>>

\* the data handler under uploads of every kind and code that changes the table
Next ==
    \/ \E upload \in Uploads : LoadFromBytes(upload.file_bytes, upload.filename)
    \/ \E file_path \in Paths : LoadFromFile(file_path)
    \/ ResetData
    \/ GetDataframe
    \/ GetInfo
    \/ GetColumnNames
    \/ IsLoaded
    \/ EngineInit
    \/ \E code \in DataCodes : ExecuteCode(code)

Spec == Init /\ [][Next]_vars

\* the engine over one loaded table, under code that binds, prints and raises
NextEngine ==
    \/ LoadFromBytes([len |-> 8, csv |-> "wide"], CsvName)
    \/ EngineInit
    \/ \E code \in EngineCodes : ExecuteCode(code)
    \/ \E result \in Values : FormatResult(result)

SpecEngine == Init /\ [][NextEngine]_vars

\* one engine and its handler, under reloads, resets and code that rebinds df
NextBinding ==
    \/ \E csv \in {"wide", "tall"} : LoadFromBytes([len |-> 8, csv |-> csv], CsvName)
    \/ EngineInit
    \/ ResetData
    \/ \E code \in BindingCodes : ExecuteCode(code)

SpecBinding == Init /\ [][NextBinding]_vars

GetFullResponse(completion) ==
    LET r == get_full_response(completion)
    IN  /\ ret' = [op |-> "get_full_response", completion |-> completion,
                   value |-> r.value, raised |-> r.raised]
        /\ UNCHANGED <<df, original_df, heap, analysis_engine, loaded>>
        /\ UNCHANGED <<process_side, session_state>>

\* the LLM client under every answer of the service
NextLLM == \E completion \in Completions : GetFullResponse(completion)

SpecLLM == Init /\ [][NextLLM]_vars

\* the sequences over S of length up to n without a repeated item
DistinctSeqsUpTo(S, n) ==
    {seq \in SeqsUpTo(S, n) : \A i, j \in 1..Len(seq) : seq[i] = seq[j] => i = j}

\* the dtype pandas gives each column the plans are made for
DatasetDtype(column) ==
    CASE column = "Sales" -> "int64"
      [] column = "Count" -> "float64"
      [] column = "Date" -> "datetime64[ns]"
      [] OTHER -> "object"

\* get_info() of the data sets the plans are made for: categorical columns,
\* then numeric ones, then a date column
Datasets ==
    {LET columns == categorical \o numeric \o date
     IN  [columns |-> columns,
          dtypes |-> [c \in 1..Len(columns) |-> DatasetDtype(columns[c])]] :
        categorical \in DistinctSeqsUpTo({"Gender", "JobRole", "Level", "AgeGroup", "Year"},
                                         MaxCategorical),
        numeric \in DistinctSeqsUpTo({"Sales", "Count"}, MaxNumeric),
        date \in {<<>>, <<"Date">>}}

\* a generator over a handler that holds one of the data sets
InitPlan ==
    /\ df = NoneRef
    /\ original_df = NoneRef
    /\ heap = [id \in ObjIds |-> FreeSlot]
    /\ analysis_engine = NoEngine
    /\ ret \in {[op |-> "get_info", columns |-> dataset.columns,
                  dtypes |-> dataset.dtypes] : dataset \in Datasets}
    /\ loaded = [ok |-> FALSE, table |-> Table(<<>>, <<>>)]
    /\ sys_stdout = Console
    /\ streams = [stream \in Streams |-> ""]
    /\ calls = [session \in Sessions |-> NoCall]
    /\ session_state = NewSessionState

\* structure = self.analyze_data_structure(); self._plan_visualizations(structure)
PlanVisualizations ==
    /\ ret.op = "get_info"
    /\ LET structure == analyze_data_structure(ret.columns, ret.dtypes, 1)
       IN  ret' = [op |-> "_plan_visualizations", columns |-> ret.columns,
                   dtypes |-> ret.dtypes, structure |-> structure,
                   plan |-> _plan_visualizations(structure)]
    /\ UNCHANGED <<df, original_df, heap, analysis_engine, loaded, process_side,
                   session_state>>

SpecPlan == InitPlan /\ [][PlanVisualizations]_vars

-----------------------------------------------------------------------------
(* The Dashboard: every user action reruns Dashboard.render, which renders
   the sidebar and then the tabs; the tab of the clicked button acts *)

\* list.insert(0, item)
insert_first(items, item) == <<item>> \o items

\* list.append(item)
append(items, item) == Append(items, item)

\* bool(value) of a str or None
truthy(value) == value # PyNone /\ value.val # ""

\* seq[:n]
FirstN(seq, n) == IF Len(seq) <= n THEN seq ELSE SubSeq(seq, 1, n)

\* seq[-n:]
LastN(seq, n) == IF Len(seq) <= n THEN seq ELSE SubSeq(seq, Len(seq) - n + 1, Len(seq))

\* reversed(seq)
reversed(seq) == [i \in 1..Len(seq) |-> seq[Len(seq) + 1 - i]]

\* Dashboard.render_sidebar: while the uploader holds a file it is loaded
\* again, and on success a new engine and a new agent replace the old ones
render_sidebar(uploaded_file) ==
    LET r == load_from_bytes(uploaded_file.file_bytes, uploaded_file.filename)
    IN  IF uploaded_file = NoFile
        THEN [df |-> df, original_df |-> original_df, heap |-> heap,
              analysis_engine |-> analysis_engine, agent |-> session_state.agent,
              loaded |-> FALSE, error |-> PyNone]
        ELSE IF r.raised = NoExc
        THEN [df |-> r.df, original_df |-> r.original_df, heap |-> r.heap,
              analysis_engine |-> AnalysisEngine(r.df), agent |-> TRUE,
              loaded |-> TRUE, error |-> PyNone]
        ELSE [df |-> r.df, original_df |-> r.original_df, heap |-> r.heap,
              analysis_engine |-> analysis_engine, agent |-> session_state.agent,
              loaded |-> FALSE,
              error |-> PyStr((IF isinstance(r.raised, {"DataLoadError"})
                               THEN "Error loading file: " ELSE "Unexpected error: ")
                              \o str(r.raised))]

\* the execute button of render_visualizations_tab, after the sidebar: the
\* engine, the heap and the visualizations it leaves, and what it shows
render_visualizations_tab(side, visualizations, code_input) ==
    LET r == execute_code(side.analysis_engine, side.heap, code_input)
        formatted == format_result(r.result)
        same == [analysis_engine |-> side.analysis_engine, heap |-> side.heap,
                 visualizations |-> visualizations, chart |-> PyNone]
        ran == [same EXCEPT !.analysis_engine.execution_context = r.execution_context,
                            !.heap = r.heap]
    IN  IF side.df = NoneRef
        THEN same @@ [info |-> "Please upload a CSV file", error |-> PyNone]
        ELSE IF ~side.analysis_engine.built
        THEN same @@ [info |-> "", error |-> PyStr("Analysis engine not initialized")]
        ELSE IF ~r.returned
        THEN ran @@ [info |-> "", error |-> PyNone]
        ELSE IF truthy(r.error)
        THEN ran @@ [info |-> "", error |-> PyStr("Error: " \o r.error.val)]
        ELSE IF r.result # PyNone /\ formatted.type = "plotly_figure"
        THEN [ran EXCEPT !.chart = formatted.data,
                         !.visualizations =
                            append(visualizations,
                                   [type |-> "plotly_figure", data |-> formatted.data,
                                    code |-> code_input])]
             @@ [info |-> "", error |-> PyNone]
        ELSE ran @@ [info |-> "", error |-> PyNone]

\* DataAnalysisAgent.analyze: the text returned, or the exception let through
analyze(invoked) ==
    IF invoked.exc = NoExc
    THEN [value |-> PyStr(IF invoked.has_output THEN invoked.output
                          ELSE "Analysis completed"),
          raised |-> NoExc]
    ELSE IF isinstance(invoked.exc, {"Exception"})
    THEN [value |-> PyStr("Error during analysis: " \o str(invoked.exc)), raised |-> NoExc]
    ELSE [value |-> PyNone, raised |-> invoked.exc]

\* DataAnalysisAgent.auto_analyze on the handler the sidebar left: the keys of
\* the dict returned and its summary, or the exception let through
auto_analyze(side, invoked) ==
    LET analysis_result == analyze(invoked)
    IN  IF side.df = NoneRef
        THEN [keys |-> {"error"}, error |-> PyStr("No data loaded"), summary |-> PyNone,
              raised |-> NoExc, requests |-> 0]
        ELSE IF analysis_result.raised # NoExc
        THEN [keys |-> {}, error |-> PyNone, summary |-> PyNone,
              raised |-> analysis_result.raised, requests |-> 1]
        ELSE [keys |-> {"summary", "columns", "shape"}, error |-> PyNone,
              summary |-> analysis_result.value, raised |-> NoExc, requests |-> 1]

\* the except clauses of the tabs around a call of the agent: the st.error text
TabHandler(exc) ==
    IF isinstance(exc, {"LLMError"}) THEN PyStr("AI service error: " \o str(exc))
    ELSE PyStr("Unexpected error: " \o str(exc))

\* the insights history as render_ai_insights_tab shows it: one expander for
\* each of the last ten records, the latest first and expanded
InsightsHistory(insights) ==
    LET shown == reversed(LastN(insights, 10))
    IN  [idx \in 1..Len(shown) |->
            [label |-> shown[idx].query, body |-> shown[idx].response,
             expanded |-> (idx - 1 = 0)]]

\* render_ai_insights_tab after the sidebar, with the button clicked ("ask",
\* "auto" or "none"): the insights it leaves and what it shows
render_ai_insights_tab(side, insights, button, user_query, invoked) ==
    LET response == analyze(invoked)
        auto_result == auto_analyze(side, invoked)
        after ==
            IF button = "ask" /\ user_query # ""
            THEN IF response.raised = NoExc
                 THEN [insights |-> append(insights, [query |-> user_query,
                                                      response |-> response.value]),
                       error |-> PyNone]
                 ELSE IF isinstance(response.raised, {"Exception"})
                 THEN [insights |-> insights, error |-> TabHandler(response.raised)]
                 ELSE [insights |-> insights, error |-> PyNone]
            ELSE IF button = "auto"
            THEN IF auto_result.raised = NoExc
                 THEN [insights |->
                            IF "error" \notin auto_result.keys
                            THEN append(insights, [query |-> "Auto Analysis",
                                                   response |-> auto_result.summary])
                            ELSE insights,
                       error |-> PyNone]
                 ELSE IF isinstance(auto_result.raised, {"Exception"})
                 THEN [insights |-> insights, error |-> TabHandler(auto_result.raised)]
                 ELSE [insights |-> insights, error |-> PyNone]
            ELSE [insights |-> insights, error |-> PyNone]
    IN  IF side.df = NoneRef
        THEN [insights |-> insights, error |-> PyNone, history |-> <<>>]
        ELSE IF ~side.agent
        THEN [insights |-> insights, error |-> PyStr("AI Agent not initialized"),
              history |-> <<>>]
        ELSE after @@ [history |-> InsightsHistory(after.insights)]

\* the code string an LLM answer is, as exec reads it
CodeOf(text) ==
    CASE text = "fig = px.bar(df)" -> Code(<<Assign("fig", Fig1)>>)
      [] text = "fig = px.pie(df)" -> Code(<<Assign("fig", Fig2)>>)
      [] text = "print(df.shape)" -> Code(<<PrintStmt("(1, 2)")>>)
      [] text = "result = 6" -> Code(<<Assign("result", PyInt(6))>>)
      [] text = "raise ValueError('boom')" -> Code(<<Raise(PyExc("ValueError", "boom"))>>)
      [] OTHER -> BadSyntax

\* the end of one pass of the loop of generate_dashboard: r is what
\* execute_code returned for the slot's code; a table slot gets the summary
\* table, any other slot the plotly figure
KeepChart(viz_info, st, code, r) ==
    LET ran == [st EXCEPT !.analysis_engine.execution_context = r.execution_context,
                          !.heap = r.heap]
        columns == r.heap[st.df].columns
    IN  IF ~r.returned THEN [ran EXCEPT !.raised = r.raised]
        ELSE IF truthy(r.error) \/ r.result = PyNone THEN ran
        ELSE IF viz_info.type = "table"
        THEN IF /\ \E c \in 1..Len(columns) : columns[c] = viz_info.columns[1]
                /\ \E c \in 1..Len(columns) : columns[c] = viz_info.columns[2]
             THEN [ran EXCEPT !.visualizations =
                        append(@, [type |-> "table", data |-> Frame, code |-> code,
                                   title |-> viz_info.title,
                                   position |-> viz_info.position])]
             ELSE ran
        ELSE IF format_result(r.result).type = "plotly_figure"
        THEN [ran EXCEPT !.visualizations =
                    append(@, [type |-> "plotly_figure",
                               data |-> format_result(r.result).data, code |-> code,
                               title |-> viz_info.title,
                               position |-> viz_info.position])]
        ELSE ran

\* one pass of the loop of generate_dashboard once the LLM has answered the
\* request for the slot; a slot whose request fails is logged and skipped
Answer(viz_info, answer, st, asked) ==
    IF answer.raised # NoExc THEN asked
    ELSE KeepChart(viz_info, asked, CodeOf(answer.value.val),
                   execute_code(st.analysis_engine, st.heap, CodeOf(answer.value.val)))

\* one pass of the loop of generate_dashboard over viz_plan: completion is the
\* LLM's answer to the request generate_visualization_code makes for the slot
FillSlot(viz_info, completion, st) ==
    Answer(viz_info, get_full_response(completion), st, [st EXCEPT !.requests = @ + 1])

RECURSIVE FillSlots(_, _, _)
\* the loop of generate_dashboard over viz_plan, until a fault that is not an
\* Exception ends the call
FillSlots(viz_plan, answers, st) ==
    IF viz_plan = <<>> \/ st.raised # NoExc THEN st
    ELSE FillSlots(Tail(viz_plan), Tail(answers),
                   FillSlot(Head(viz_plan), Head(answers), st))

\* structure = self.analyze_data_structure() of the generator over the
\* handler's table
Structure(table) ==
    analyze_data_structure(table.columns,
                           [c \in 1..Len(table.columns) |-> InferredDtype(table, c)],
                           Len(table.rows))

\* the end of generate_dashboard: the dict returned (its keys and its
\* visualizations), the heap left, the number of LLM requests made, or the
\* fault let through by the loop
Returned(filled) ==
    IF filled.raised # NoExc
    THEN [keys |-> {}, error |-> PyNone, visualizations |-> <<>>,
          heap |-> filled.heap, requests |-> filled.requests,
          raised |-> filled.raised]
    ELSE [keys |-> {"visualizations", "insights", "structure"}, error |-> PyNone,
          visualizations |-> filled.visualizations, heap |-> filled.heap,
          requests |-> filled.requests, raised |-> NoExc]

\* generate_dashboard after analyze_data_structure: the metrics entry, then
\* the loop over the plan, with a new engine over the handler's table d
Planned(structure, d, h, answers) ==
    Returned(FillSlots(_plan_visualizations(structure), answers,
                       [analysis_engine |-> AnalysisEngine(d), df |-> d, heap |-> h,
                        visualizations |->
                            IF structure.numeric_cols # <<>>
                            THEN <<[type |-> "metrics", data |-> structure.numeric_cols,
                                    title |-> "Key Metrics"]>>
                            ELSE <<>>,
                        requests |-> 0, raised |-> NoExc]))

\* AutoDashboardGenerator.generate_dashboard over the handler's table d
generate_dashboard(d, h, answers) == Planned(Structure(Deref(h, d)), d, h, answers)

\* generate_auto_dashboard without the check that data is loaded
generate_auto_dashboard_unguarded(side, answers) ==
    [keys |-> {"visualizations", "insights", "structure"}, error |-> PyNone,
     visualizations |-> <<>>, heap |-> side.heap, requests |-> Len(answers),
     raised |-> NoExc]

\* DataAnalysisAgent.generate_auto_dashboard on the handler the sidebar left;
\* answers are the LLM's answers to the requests for the slots' code
generate_auto_dashboard(side, answers) ==
    IF side.df = NoneRef
    THEN [keys |-> {"error"}, error |-> PyStr("No data loaded"), visualizations |-> <<>>,
          heap |-> side.heap, requests |-> 0, raised |-> NoExc]
    ELSE generate_dashboard(side.df, side.heap, answers)

\* render_auto_dashboard_tab once the agent has returned dashboard_data
ShowDashboard(side, auto_dashboard, dashboard_data) ==
    IF dashboard_data.raised # NoExc
    THEN [auto_dashboard |-> auto_dashboard,
          error |-> TabHandler(dashboard_data.raised), success |-> FALSE,
          heap |-> dashboard_data.heap]
    ELSE IF "error" \notin dashboard_data.keys
    THEN [auto_dashboard |-> [cls |-> "dict", val |-> dashboard_data.visualizations],
          error |-> PyNone, success |-> TRUE, heap |-> dashboard_data.heap]
    ELSE [auto_dashboard |-> auto_dashboard, error |-> PyStr("Error: No data loaded"),
          success |-> FALSE, heap |-> dashboard_data.heap]

\* the generate button of render_auto_dashboard_tab, after the sidebar: the
\* auto_dashboard it leaves and what it shows
render_auto_dashboard_tab(side, auto_dashboard, answers) ==
    IF side.df = NoneRef
    THEN [auto_dashboard |-> auto_dashboard, error |-> PyNone, success |-> FALSE,
          heap |-> side.heap]
    ELSE IF ~side.agent
    THEN [auto_dashboard |-> auto_dashboard,
          error |-> PyStr("AI Agent not initialized"), success |-> FALSE,
          heap |-> side.heap]
    ELSE ShowDashboard(side, auto_dashboard, generate_auto_dashboard(side, answers))

RECURSIVE Sections(_, _)
\* the LLM-written sections of generate_comprehensive_report, in order: the
\* texts, until a request raises
Sections(completions, st) ==
    IF completions = <<>> \/ st.raised # NoExc THEN st
    ELSE LET answer == get_full_response(Head(completions))
         IN  Sections(Tail(completions),
                      IF answer.raised # NoExc THEN [st EXCEPT !.raised = answer.raised]
                      ELSE [st EXCEPT !.texts = Append(@, answer.value.val)])

\* DataAnalysisAgent.generate_report on the handler the sidebar left: the
\* keys of the dict returned and its LLM-written sections (data_explanation,
\* predictions, insights, recommendations), or the exception let through
generate_report(side, completions) ==
    LET written == Sections(completions, [texts |-> <<>>, raised |-> NoExc])
    IN  IF side.df = NoneRef
        THEN [keys |-> {"error"}, error |-> PyStr("No data loaded"), texts |-> <<>>,
              raised |-> NoExc, requests |-> 0]
        ELSE IF written.raised # NoExc
        THEN [keys |-> {}, error |-> PyNone, texts |-> <<>>, raised |-> written.raised,
              requests |-> Len(written.texts) + 1]
        ELSE [keys |-> {"data_overview", "data_explanation", "statistical_summary",
                        "predictions", "insights", "recommendations", "data_quality"},
              error |-> PyNone, texts |-> written.texts, raised |-> NoExc,
              requests |-> Len(written.texts)]

\* the generate button of render_report_tab, after the sidebar: the report it
\* leaves and what it shows
render_report_tab(side, report, completions) ==
    LET report_data == generate_report(side, completions)
    IN  IF side.df = NoneRef
        THEN [report |-> report, error |-> PyNone, success |-> FALSE]
        ELSE IF ~side.agent
        THEN [report |-> report, error |-> PyStr("AI Agent not initialized"),
              success |-> FALSE]
        ELSE IF report_data.raised # NoExc
        THEN [report |-> report, error |-> TabHandler(report_data.raised),
              success |-> FALSE]
        ELSE IF "error" \notin report_data.keys
        THEN [report |-> [cls |-> "dict", val |-> report_data.texts],
              error |-> PyNone, success |-> TRUE]
        ELSE [report |-> report, error |-> PyStr("Error: No data loaded"),
              success |-> FALSE]

\* ColumnInfoTool._run over the handler's table d: the text returned
ColumnInfoTool_run(d, h) ==
    IF d = NoneRef
    THEN [value |-> PyStr("No data loaded. Please upload a CSV file first."),
          raised |-> NoExc, requests |-> 0]
    ELSE LET table == Deref(h, d)
             columns == table.columns
         IN  [value |->
                PyStr("DataFrame has " \o ToString(Len(columns)) \o " columns:\n"
                      \o Join([c \in 1..Len(columns) |->
                                "- " \o columns[c] \o ": " \o InferredDtype(table, c)
                                \o " (" \o ToString(NullCount(table, c))
                                \o " null values)\n"], "")
                      \o "\nShape: (" \o ToString(Len(table.rows)) \o ", "
                      \o ToString(Len(columns)) \o ") rows x columns"),
              raised |-> NoExc, requests |-> 0]

\* GenerateCodeTool._run over the handler's table d: the code the LLM
\* answered, or the LLMError let through
GenerateCodeTool_run(d, h, completion) ==
    LET answer == get_full_response(completion)
    IN  IF d = NoneRef
        THEN [value |-> PyStr("No data loaded. Please upload a CSV file first."),
              raised |-> NoExc, requests |-> 0]
        ELSE [value |-> answer.value, raised |-> answer.raised, requests |-> 1]

\* the handler as the agent and its tools see it
AgentSide == [df |-> df, heap |-> heap]

\* agent.auto_analyze()
AutoAnalyze(invoked) ==
    \E out \in {auto_analyze(AgentSide, invoked)} :
        /\ ret' = [op |-> "auto_analyze", keys |-> out.keys, error |-> out.error,
                   raised |-> out.raised, requests |-> out.requests]
        /\ UNCHANGED <<df, original_df, heap, analysis_engine, loaded, process_side,
                       session_state>>

\* agent.generate_auto_dashboard(); answers are the LLM's answers to the
\* requests for the code of the planned slots
GenerateAutoDashboard(answers) ==
    \E viz_plan \in {IF is_loaded THEN _plan_visualizations(Structure(Deref(heap, df)))
                     ELSE <<>>} :
    \E out \in {generate_auto_dashboard(AgentSide, answers)} :
        /\ Settle(df, original_df, analysis_engine, out.heap)
        /\ ret' = [op |-> "generate_auto_dashboard", viz_plan |-> viz_plan,
                   answers |-> SubSeq(answers, 1, Len(viz_plan)), keys |-> out.keys,
                   error |-> out.error, visualizations |-> out.visualizations,
                   raised |-> out.raised, requests |-> out.requests]
        /\ UNCHANGED <<loaded, process_side, session_state>>

\* agent.generate_report()
GenerateReport(completions) ==
    \E out \in {generate_report(AgentSide, completions)} :
        /\ ret' = [op |-> "generate_report", keys |-> out.keys, error |-> out.error,
                   raised |-> out.raised, requests |-> out.requests]
        /\ UNCHANGED <<df, original_df, heap, analysis_engine, loaded, process_side,
                       session_state>>

\* the agent calls its get_column_info tool
ColumnInfo ==
    \E out \in {ColumnInfoTool_run(df, heap)} :
        /\ ret' = [op |-> "get_column_info", value |-> out.value, raised |-> out.raised,
                   requests |-> out.requests]
        /\ UNCHANGED <<df, original_df, heap, analysis_engine, loaded, process_side,
                       session_state>>

\* the agent calls its generate_analysis_code tool
GenerateCode(completion) ==
    \E out \in {GenerateCodeTool_run(df, heap, completion)} :
        /\ ret' = [op |-> "generate_analysis_code", value |-> out.value,
                   raised |-> out.raised, requests |-> out.requests]
        /\ UNCHANGED <<df, original_df, heap, analysis_engine, loaded, process_side,
                       session_state>>

\* the agent and its tools over a handler, called before and after a load
NextAgent ==
    \/ \E upload \in Uploads \cup {MixedUpload} :
            LoadFromBytes(upload.file_bytes, upload.filename)
    \/ \E invoked \in Invocations : AutoAnalyze(invoked)
    \/ \E completion \in {ChartAnswer, Refused} :
            GenerateAutoDashboard([k \in 1..7 |-> completion])
    \/ \E completions \in ReportAnswers : GenerateReport(completions)
    \/ ColumnInfo
    \/ \E completion \in {ChartAnswer, Refused} : GenerateCode(completion)

SpecAgent == Init /\ [][NextAgent]_vars

\* the handler after load_from_bytes of the file with a text column, and the
\* answers the LLM will give to the requests for the slots of its plan
InitDashboard ==
    /\ df = "o1"
    /\ original_df = "o2"
    /\ heap = [id \in ObjIds |-> IF id \in {"o1", "o2"} THEN Obj(CsvTables.mixed)
                                 ELSE FreeSlot]
    /\ analysis_engine = NoEngine
    /\ ret \in {[op |-> "load_from_bytes", answers |-> answers] :
                    answers \in [1..Len(_plan_visualizations(Structure(CsvTables.mixed)))
                                 -> SlotAnswers]}
    /\ loaded = [ok |-> TRUE, table |-> CsvTables.mixed]
    /\ sys_stdout = Console
    /\ streams = [stream \in Streams |-> ""]
    /\ calls = [session \in Sessions |-> NoCall]
    /\ session_state = NewSessionState

\* the dashboard generated once for the loaded file
NextDashboard ==
    /\ ret.op = "load_from_bytes"
    /\ GenerateAutoDashboard(ret.answers)

SpecDashboard == InitDashboard /\ [][NextDashboard]_vars

\* the rerun leaves the handler and the engine as the sidebar and the tabs left them
Rerun(side, engine, h) ==
    /\ Settle(side.df, side.original_df, engine, h)
    /\ loaded' = IF side.loaded THEN [ok |-> TRUE, table |-> Deref(side.heap, side.df)]
                  ELSE loaded
    /\ UNCHANGED process_side

\* the user puts a file into the uploader
UploadFile(upload) ==
    \E side \in {render_sidebar(upload)} :
    \E tab \in {render_ai_insights_tab(side, session_state.insights, "none", "",
                                       Invoked(NoExc, FALSE, ""))} :
        /\ Rerun(side, side.analysis_engine, side.heap)
        /\ session_state' = [session_state EXCEPT !.uploaded_file = upload,
                                                   !.agent = side.agent]
        /\ ret' = [op |-> "upload", sidebar |-> side.error, error |-> tab.error,
                   history |-> tab.history]

\* the user takes the file out of the uploader
RemoveFile ==
    \E side \in {render_sidebar(NoFile)} :
    \E tab \in {render_ai_insights_tab(side, session_state.insights, "none", "",
                                       Invoked(NoExc, FALSE, ""))} :
        /\ session_state.uploaded_file # NoFile
        /\ Rerun(side, side.analysis_engine, side.heap)
        /\ session_state' = [session_state EXCEPT !.uploaded_file = NoFile]
        /\ ret' = [op |-> "remove", sidebar |-> side.error, error |-> tab.error,
                   history |-> tab.history]

\* the user clicks Execute Code with code_input in the text area
ExecuteClick(code_input) ==
    /\ is_loaded
    /\ analysis_engine.built
    /\ \E side \in {render_sidebar(session_state.uploaded_file)} :
       \E tab \in {render_visualizations_tab(side, session_state.visualizations,
                                             code_input)} :
       \E insights_tab \in {render_ai_insights_tab(side, session_state.insights, "none",
                                                   "", Invoked(NoExc, FALSE, ""))} :
        /\ Rerun(side, tab.analysis_engine, tab.heap)
        /\ session_state' = [session_state EXCEPT !.agent = side.agent,
                                                   !.visualizations = tab.visualizations]
        /\ ret' = [op |-> "execute", code_input |-> code_input, sidebar |-> side.error,
                   error |-> tab.error, chart |-> tab.chart,
                   history |-> insights_tab.history]

\* the user clicks Ask AI with user_query in the text input; invoked is what
\* the agent executor does with it
AskClick(user_query, invoked) ==
    /\ is_loaded
    /\ session_state.agent
    /\ \E side \in {render_sidebar(session_state.uploaded_file)} :
       \E tab \in {render_ai_insights_tab(side, session_state.insights, "ask",
                                          user_query, invoked)} :
        /\ Rerun(side, side.analysis_engine, side.heap)
        /\ session_state' = [session_state EXCEPT !.agent = side.agent,
                                                   !.insights = tab.insights]
        /\ ret' = [op |-> "ask", user_query |-> user_query, invoked |-> invoked,
                   sidebar |-> side.error, error |-> tab.error, history |-> tab.history,
                   appended |-> tab.insights # session_state.insights]

\* the user clicks Auto Analyze
AutoAnalyzeClick(invoked) ==
    /\ is_loaded
    /\ session_state.agent
    /\ \E side \in {render_sidebar(session_state.uploaded_file)} :
       \E tab \in {render_ai_insights_tab(side, session_state.insights, "auto", "",
                                          invoked)} :
        /\ Rerun(side, side.analysis_engine, side.heap)
        /\ session_state' = [session_state EXCEPT !.agent = side.agent,
                                                   !.insights = tab.insights]
        /\ ret' = [op |-> "auto", invoked |-> invoked,
                   sidebar |-> side.error, error |-> tab.error, history |-> tab.history,
                   appended |-> tab.insights # session_state.insights]

\* the user clicks Generate Dashboard; completion is the LLM's answer to each
\* request for the code of a slot
GenerateDashboardClick(completion) ==
    /\ is_loaded
    /\ session_state.agent
    /\ \E side \in {render_sidebar(session_state.uploaded_file)} :
       \E answers \in {[k \in 1..7 |-> completion]} :
       \E tab \in {render_auto_dashboard_tab(side, session_state.auto_dashboard,
                                             answers)} :
       \E insights_tab \in {render_ai_insights_tab(side, session_state.insights, "none",
                                                   "", Invoked(NoExc, FALSE, ""))} :
        /\ Rerun(side, side.analysis_engine, tab.heap)
        /\ session_state' = [session_state EXCEPT !.agent = side.agent,
                                                   !.auto_dashboard = tab.auto_dashboard]
        /\ ret' = [op |-> "generate_dashboard",
                   answers |-> IF side.df = NoneRef THEN <<>>
                               ELSE SubSeq(answers, 1,
                                        Len(_plan_visualizations(
                                                Structure(Deref(side.heap, side.df))))),
                   sidebar |-> side.error, error |-> tab.error, success |-> tab.success,
                   history |-> insights_tab.history]

\* the user clicks Generate Report; completions are the LLM's answers to the
\* report's four requests
GenerateReportClick(completions) ==
    /\ is_loaded
    /\ session_state.agent
    /\ \E side \in {render_sidebar(session_state.uploaded_file)} :
       \E tab \in {render_report_tab(side, session_state.report, completions)} :
       \E insights_tab \in {render_ai_insights_tab(side, session_state.insights, "none",
                                                   "", Invoked(NoExc, FALSE, ""))} :
        /\ Rerun(side, side.analysis_engine, side.heap)
        /\ session_state' = [session_state EXCEPT !.agent = side.agent,
                                                   !.report = tab.report]
        /\ ret' = [op |-> "generate_report", completions |-> completions,
                   sidebar |-> side.error, error |-> tab.error, success |-> tab.success,
                   history |-> insights_tab.history]

\* the visualizations tab: uploads, and manual code of every kind of result
NextCharts ==
    \/ \E upload \in UiUploads : UploadFile(upload)
    \/ RemoveFile
    \/ \E code_input \in ChartCodes :
            /\ Len(session_state.visualizations) < MaxVisualizations
            /\ ExecuteClick(code_input)

SpecCharts == Init /\ [][NextCharts]_vars

\* every user action, the LLM answering or failing
NextInsights ==
    \/ \E upload \in AgentUploads : UploadFile(upload)
    \/ RemoveFile
    \/ ExecuteClick(Code(<<Assign("result", PyInt(6))>>))
    \/ \E user_query \in {"", "top 5?"}, invoked \in Invocations :
            /\ Len(session_state.insights) < MaxInsights
            /\ AskClick(user_query, invoked)
    \/ \E invoked \in Invocations :
            /\ Len(session_state.insights) < MaxInsights
            /\ AutoAnalyzeClick(invoked)
    \/ \E completion \in {ChartAnswer, Refused} : GenerateDashboardClick(completion)
    \/ \E completions \in ReportAnswers : GenerateReportClick(completions)

SpecInsights == Init /\ [][NextInsights]_vars

\* a session that asks one question after another, the LLM answering
NextWindow ==
    \/ UploadFile(WideUpload)
    \/ \E invoked \in {Invoked(NoExc, TRUE, "answer"), Invoked(NoExc, FALSE, "")} :
            /\ Len(session_state.insights) < MaxHistory
            /\ AskClick("top 5?", invoked)

SpecWindow == Init /\ [][NextWindow]_vars

-----------------------------------------------------------------------------
(* execute_code line by line, called by two sessions of one process: each
   session runs in a thread of its own, on its own engine; sys.stdout is the
   one of the process *)

\* what execute_code's steps leave alone
session_side == <<df, original_df, heap, analysis_engine, ret, loaded, session_state>>

\* the call enters: line 43, old_stdout = sys.stdout
Line43(session, code) ==
    /\ calls[session].line \in {"idle", "returned"}
    /\ calls[session].made < MaxCalls
    /\ calls' = [calls EXCEPT ![session] =
                    [NoCall EXCEPT !.line = "44", !.code = code,
                                   !.made = calls[session].made + 1,
                                   !.old_stdout = sys_stdout]]
    /\ UNCHANGED <<sys_stdout, streams, session_side>>

\* line 44, sys.stdout = captured_output = StringIO(); lines 46-47
Line44(session) ==
    LET buffer == StringIO(session, calls[session].made)
    IN  /\ calls[session].line = "44"
        /\ sys_stdout' = buffer
        /\ streams' = [streams EXCEPT ![buffer] = ""]
        /\ calls' = [calls EXCEPT ![session].line = "51",
                                  ![session].captured_output = buffer]
        /\ UNCHANGED session_side

\* line 51, exec(code, self.execution_context): the next statement of the code,
\* printing to the stream sys.stdout is at that moment
Line51(session) ==
    LET call == calls[session]
        st == ExecStmt(call.code.body[call.next],
                       [ctx |-> call.execution_context, heap |-> heap,
                        out |-> streams[sys_stdout], exc |-> NoExc])
        done == st.exc = NoExc /\ call.next = Len(call.code.body)
    IN  /\ call.line = "51"
        /\ streams' = [streams EXCEPT ![sys_stdout] = st.out]
        /\ calls' = [calls EXCEPT ![session] =
                        [call EXCEPT !.line = IF st.exc # NoExc THEN "64"
                                              ELSE IF done THEN "54" ELSE "51",
                                     !.next = call.next + 1,
                                     !.execution_context = st.ctx,
                                     !.fault = st.exc]]
        /\ UNCHANGED <<sys_stdout, session_side>>

\* lines 54-61: the result looked up, output_text = captured_output.getvalue()
Line61(session) ==
    LET call == calls[session]
        ctx == call.execution_context
    IN  /\ call.line = "54"
        /\ calls' = [calls EXCEPT ![session] =
                        [call EXCEPT !.line = "68",
                                     !.result = IF ctx.result # Unbound THEN ctx.result
                                                ELSE IF ctx.fig # Unbound THEN ctx.fig
                                                ELSE IF ctx.chart # Unbound THEN ctx.chart
                                                ELSE PyNone,
                                     !.output_text = PyStr(streams[call.captured_output])]]
        /\ UNCHANGED <<sys_stdout, streams, session_side>>

\* lines 63-65: error = str(e), output_text = traceback.format_exc()
Line64(session) ==
    LET call == calls[session]
    IN  /\ call.line = "64"
        /\ calls' = [calls EXCEPT ![session] =
                        [call EXCEPT !.line = "68",
                                     !.error = PyStr(str(call.fault)),
                                     !.output_text = PyStr(format_exc(call.fault))]]
        /\ UNCHANGED <<sys_stdout, streams, session_side>>

\* lines 67-70: finally sys.stdout = old_stdout, and the triple is returned
Line68(session) ==
    /\ calls[session].line = "68"
    /\ sys_stdout' = calls[session].old_stdout
    /\ calls' = [calls EXCEPT ![session].line = "returned"]
    /\ UNCHANGED <<streams, session_side>>

NextThreads ==
    \/ \E session \in Sessions : \E code \in SessionCodes(session) : Line43(session, code)
    \/ \E session \in Sessions : Line44(session)
    \/ \E session \in Sessions : Line51(session)
    \/ \E session \in Sessions : Line61(session)
    \/ \E session \in Sessions : Line64(session)
    \/ \E session \in Sessions : Line68(session)

SpecThreads == Init /\ [][NextThreads]_vars

-----------------------------------------------------------------------------
(* What a code string does by itself, read off its text *)

\* the statements that run: all of them, or those before the first raise
Ran(code) ==
    LET raises == {i \in 1..Len(code.body) : code.body[i].op = "raise"}
    IN  IF raises = {} THEN code.body
        ELSE SubSeq(code.body, 1, (CHOOSE i \in raises : \A j \in raises : i <= j) - 1)

\* the value the code itself binds to name (its last assignment that runs), or Unbound
AssignedBy(code, name) ==
    LET ran == Ran(code)
        at == {i \in 1..Len(ran) : ran[i].op = "assign" /\ ran[i].name = name}
    IN  IF at = {} THEN Unbound
        ELSE ran[CHOOSE i \in at : \A j \in at : j <= i].value

\* the code binds none of result, fig, chart
AssignsNone(code) ==
    \A name \in {"result", "fig", "chart"} : AssignedBy(code, name) = Unbound

\* the last call was execute_code and its code ran to the end
Completed == ret.op = "execute_code" /\ ret.fault = NoExc

\* the last call was execute_code and its code raised
Faulted == ret.op = "execute_code" /\ ret.fault # NoExc

-----------------------------------------------------------------------------
(* Claims about AnalysisEngine.execute_code, under SpecEngine *)

\* C1: when the code completes, the produced value is the binding the code
\* assigned, result before fig before chart, and the error is None.
C1_AssignedBindingByPriority ==
    (Completed /\ ~AssignsNone(ret.code)) =>
        /\ ret.returned
        /\ ret.error = PyNone
        /\ ret.result =
                IF AssignedBy(ret.code, "result") # Unbound
                THEN AssignedBy(ret.code, "result")
                ELSE IF AssignedBy(ret.code, "fig") # Unbound
                THEN AssignedBy(ret.code, "fig")
                ELSE AssignedBy(ret.code, "chart")

\* C2: a call whose code completes without assigning result, fig or chart
\* produces None, whatever earlier calls on the engine assigned.
C2_NoValueFromEarlierCall ==
    (Completed /\ AssignsNone(ret.code)) => (ret.returned /\ ret.result = PyNone)

\* C3: when the code raises, execute_code returns a non-empty error message
\* and a produced value of None.
C3_FaultGivesNonEmptyError ==
    Faulted =>
        /\ ret.returned
        /\ ret.error.cls = "str"
        /\ ret.error # PyStr("")
        /\ ret.result = PyNone

\* C4: no partial success. A call whose code assigns result, fig or chart and
\* then raises (a fault execute_code catches) produces None and the fault trace;
\* and the next call on the engine, if its own code completes and assigns none
\* of the three names, produces None too.
C4_NoPartialSuccess ==
    [][/\ (Faulted' /\ ~AssignsNone(ret'.code) /\ isinstance(ret'.fault, {"Exception"})) =>
            /\ ret'.returned
            /\ ret'.result = PyNone
            /\ ret'.output_text = PyStr(format_exc(ret'.fault))
       /\ (Faulted /\ ~AssignsNone(ret.code) /\ Completed' /\ AssignsNone(ret'.code)) =>
            ret'.result = PyNone]_vars

\* C5: execute_code is total: whatever the code does (a syntax error, any
\* kind of fault), the call returns its triple and lets no fault through.
C5_AlwaysReturnsTriple ==
    ret.op = "execute_code" => (ret.returned /\ ret.raised = NoExc)

-----------------------------------------------------------------------------
(* Claims about AnalysisEngine.format_result, under SpecEngine *)

\* a Series as a one-column table
AsTable(series) ==
    [cls |-> "DataFrame",
     val |-> [columns |-> <<series.val.name>>,
              rows |-> [i \in 1..Len(series.val.data) |-> <<series.val.data[i]>>]]]

\* the decision table, first matching row first; series_kind is the kind of
\* a one-dimensional labeled sequence
DecisionTable(v, series_kind) ==
    IF isinstance(v, {"Figure", "FigureWidget"}) THEN [type |-> "plotly_figure", data |-> v]
    ELSE IF isinstance(v, {"DataFrame"}) THEN [type |-> "dataframe", data |-> v]
    ELSE IF isinstance(v, {"Series"}) THEN [type |-> series_kind, data |-> AsTable(v)]
    ELSE IF isinstance(v, {"int", "float", "str", "bool"}) THEN [type |-> "scalar", data |-> v]
    ELSE IF isinstance(v, {"list", "dict"}) THEN [type |-> "collection", data |-> v]
    ELSE [type |-> "other", data |-> PyStr(str(v))]

C7_NumericResultIsScalar ==
    (Completed /\ AssignedBy(ret.code, "result") \in NumericScalars) =>
        /\ ret.returned
        /\ format_result(ret.result) =
                [type |-> "scalar", data |-> AssignedBy(ret.code, "result")]

-----------------------------------------------------------------------------
(* Claims about DataHandler, under Spec *)

\* C8: after a successful load and whatever followed it, reset_data returns
\* True and leaves the current table equal to the table as it was right after
\* the most recent successful load.
C8_ResetRestoresLoadedTable ==
    (ret.op = "reset_data" /\ loaded.ok) =>
        /\ ret.value = PyBool(TRUE)
        /\ is_loaded
        /\ Deref(heap, df) = loaded.table

\* reset_data has replaced a table that executed code had changed in place
C8_Witness ==
    /\ ret.op = "reset_data"
    /\ loaded.ok
    /\ ret.before # loaded.table
    /\ Deref(heap, df) = loaded.table

\* C9: between loads the snapshot stays the table of the last successful
\* load, and it is an object of its own: not the current table, and not the
\* table executed code reaches through df.
C9_SnapshotImmutable ==
    loaded.ok =>
        /\ original_df # NoneRef
        /\ Deref(heap, original_df) = loaded.table
        /\ original_df \notin {df, analysis_engine.df, analysis_engine.execution_context.df}

\* executed code has changed the current table in place
C9_Witness ==
    /\ loaded.ok
    /\ ret.op = "execute_code"
    /\ analysis_engine.execution_context.df = df
    /\ Deref(heap, df) # loaded.table

\* the upload's size exceeds Config.MAX_FILE_SIZE_MB megabytes
Oversized(file_bytes) == file_bytes.len > MAX_FILE_SIZE_MB * 1024 * 1024

\* the file name, compared case-insensitively, ends with ".csv"
AllowedName(filename) ==
    LET n == Len(filename)
    IN  /\ n >= 4
        /\ lower(<<filename[n - 3], filename[n - 2], filename[n - 1], filename[n]>>)
            = <<".", "c", "s", "v">>

\* C10: load_from_bytes raises DataLoadError, before the parser is reached,
\* for every oversized upload and every upload whose name has no allowed
\* extension; the size check comes first; an upload within the size limit
\* (exactly at it included) with an allowed extension reaches the parser.
C10_RejectedBeforeParsing ==
    ret.op = "load_from_bytes" =>
        /\ (Oversized(ret.file_bytes) \/ ~AllowedName(ret.filename)) =>
                /\ ret.raised.cls = "DataLoadError"
                /\ ~ret.read_csv_called
                /\ ret.value = PyNone
        /\ Oversized(ret.file_bytes) =>
                ret.raised.val = "Error loading file from bytes: "
                    \o "File size (100.00 MB) exceeds maximum (100 MB)"
        /\ (~Oversized(ret.file_bytes) /\ ~AllowedName(ret.filename)) =>
                ret.raised.val = "Error loading file from bytes: "
                    \o "File type not allowed. Allowed: ['.csv']"
        /\ (~Oversized(ret.file_bytes) /\ AllowedName(ret.filename)) =>
                ret.read_csv_called

\* an oversized upload with a wrong extension has been rejected
C10_Witness ==
    /\ ret.op = "load_from_bytes"
    /\ Oversized(ret.file_bytes)
    /\ ~AllowedName(ret.filename)
    /\ ret.raised.cls = "DataLoadError"
    /\ ~ret.read_csv_called

-----------------------------------------------------------------------------
(* Claims about both loaders, under Spec *)

\* the last call was a load
IsLoad == ret.op \in {"load_from_bytes", "load_from_file"}

\* the current table and the snapshot, by content
TablePair ==
    [df_loaded |-> df # NoneRef,
     df_table |-> IF df = NoneRef THEN Table(<<>>, <<>>) ELSE Deref(heap, df),
     snapshot_kept |-> original_df # NoneRef,
     snapshot |-> IF original_df = NoneRef THEN Table(<<>>, <<>>)
                  ELSE Deref(heap, original_df)]

\* C11: a load that fails leaves the current table and the snapshot exactly
\* what they were before the call.
C11_FailedLoadAtomic ==
    [][(IsLoad' /\ ret'.raised # NoExc) => TablePair' = TablePair]_vars

\* the size in bytes of what the last load was given
InputSize ==
    IF ret.op = "load_from_bytes" THEN ret.file_bytes.len
    ELSE IF \E f \in Disk : f.file_path = ret.file_path
    THEN FileBytes(ret.file_path).len
    ELSE 0

\* the name of what the last load was given
InputName == IF ret.op = "load_from_bytes" THEN ret.filename ELSE ret.file_path

\* C12: no load succeeds (and so makes is_loaded() true) from an input that
\* exceeds the maximum file size or whose name has no allowed extension.
C12_InvalidInputNeverLoads ==
    (IsLoad /\ (InputSize > MAX_FILE_SIZE_MB * 1024 * 1024 \/ ~AllowedName(InputName))) =>
        /\ ret.raised # NoExc
        /\ ret.value # PyBool(TRUE)

-----------------------------------------------------------------------------
(* Claims about the metadata reads, under Spec *)

\* the elements of a sequence
Range(seq) == {seq[i] : i \in 1..Len(seq)}

\* C14: read at any point, get_info on a loaded handler reports the shape
\* (R, C) of the current table as it is then, C column names, and dtypes and
\* null_counts keyed by exactly the columns; get_column_names is the columns
\* entry of get_info; with nothing loaded they are an empty mapping and an
\* empty list.
C14_MetadataMatchesTable ==
    /\ (ret.op = "get_info" /\ is_loaded) =>
            LET table == Deref(heap, df)
                info == ret.value
            IN  /\ info.shape = <<Len(table.rows), Len(table.columns)>>
                /\ info.columns = table.columns
                /\ Len(info.columns) = info.shape[2]
                /\ Range(info.dtypes) = Range(table.columns)
                /\ {pair[1] : pair \in Range(info.null_counts)} = Range(table.columns)
                /\ get_column_names = info.columns
    /\ (ret.op = "get_info" /\ ~is_loaded) => ret.value = [keys |-> {}]
    /\ ret.op = "get_column_names" =>
            ret.value = IF is_loaded THEN get_info.columns ELSE <<>>

\* get_info has been read after executed code changed the loaded table in place
C14_Witness ==
    /\ ret.op = "get_info"
    /\ loaded.ok
    /\ is_loaded
    /\ Deref(heap, df) # loaded.table
    /\ Deref(heap, original_df) = loaded.table
    /\ ret.value.shape = <<Len(heap[df].rows), Len(heap[df].columns)>>

-----------------------------------------------------------------------------
(* Claims about execute_code called by concurrent sessions, under SpecThreads *)

\* no call is in progress
AllReturned == \A session \in Sessions : calls[session].line \in {"idle", "returned"}

\* C15: for any interleaving of the two sessions' calls, once all calls have
\* returned sys.stdout is the stream installed before the first call, and the
\* output text of each call whose code completed is exactly what that code
\* printed (what the same call returns when it runs alone).
C15_SessionsIsolated ==
    /\ AllReturned => sys_stdout = Console
    /\ \A session \in Sessions :
            LET call == calls[session]
            IN  (call.line = "returned" /\ call.fault = NoExc) =>
                    call.output_text =
                        execute_code(NoEngine, heap, call.code).output_text

-----------------------------------------------------------------------------
(* Claims about BasetenLLMClient.get_full_response, under SpecLLM *)

\* the request fails: at creation, or at some chunk of the stream
RequestFails(completion) ==
    \/ completion.create_exc # NoExc
    \/ \E i \in 1..Len(completion.chunks) : completion.chunks[i].kind = "raise"

\* the texts of the chunks that carry content, in arrival order
ContentTexts(chunks) ==
    LET carrying == SelectSeq(chunks, LAMBDA chunk : chunk.kind = "content")
    IN  [i \in 1..Len(carrying) |-> carrying[i].content]

\* C20: a request that fails, at creation or while its chunks are consumed,
\* raises LLMError and returns no text; one that does not fail returns the
\* concatenation of its non-null content chunks in arrival order.
C20_LLMErrorOrFullText ==
    ret.op = "get_full_response" =>
        IF RequestFails(ret.completion)
        THEN ret.raised.cls = "LLMError" /\ ret.value = PyNone
        ELSE /\ ret.raised = NoExc
             /\ ret.value = PyStr(Join(ContentTexts(ret.completion.chunks), ""))

\* a stream has broken after it delivered text
C20_Witness ==
    /\ ret.op = "get_full_response"
    /\ Len(ret.completion.chunks) >= 2
    /\ ret.completion.chunks[1].kind = "content"
    /\ ret.completion.chunks[2].kind = "raise"
    /\ ret.raised = PyExc("LLMError", "LLM API error: Connection error.")

-----------------------------------------------------------------------------
(* Claims about the insight history, under SpecInsights and SpecWindow *)

\* C16: every user action leaves the records the insight history holds
\* unchanged and in their order, and appends one (query, response) record at
\* the end or none.
C16_InsightsAppendOnly ==
    [][LET before == session_state.insights
           after == session_state'.insights
       IN  \/ after = before
           \/ /\ Len(after) = Len(before) + 1
              /\ SubSeq(after, 1, Len(before)) = before
              /\ DOMAIN after[Len(after)] = {"query", "response"}]_vars

\* an auto analysis has been appended after a question, other actions between
C16_Witness ==
    /\ ret.op = "generate_report"
    /\ Len(session_state.insights) = 2
    /\ session_state.insights[1].query = "top 5?"
    /\ session_state.insights[2].query = "Auto Analysis"

\* the smaller of two numbers
Min(a, b) == IF a <= b THEN a ELSE b

\* C17: for a history of n records the display shows min(n, 10) of them: the
\* most recently appended ones, the newest first, and only the newest expanded.
C17_LastTenNewestFirst ==
    (ret.op = "ask" /\ is_loaded /\ session_state.agent) =>
        LET insights == session_state.insights
            n == Len(insights)
        IN  /\ Len(ret.history) = Min(n, 10)
            /\ \A k \in 1..Len(ret.history) :
                    /\ ret.history[k].label = insights[n + 1 - k].query
                    /\ ret.history[k].body = insights[n + 1 - k].response
                    /\ ret.history[k].expanded = (k = 1)

\* a history of more than ten records has been displayed
C17_Witness ==
    /\ ret.op = "ask"
    /\ Len(session_state.insights) = 12
    /\ Len(ret.history) = 10
    /\ session_state.insights[2].response # session_state.insights[12].response
    /\ ret.history[1].body = session_state.insights[12].response

\* some request of the answers fails
SomeFails(completions) == \E k \in 1..Len(completions) : RequestFails(completions[k])

\* C18: a failure of an LLM call made for a question, an auto analysis, a
\* dashboard or a report is shown as an error message, and nothing is stored
\* for it as a response.
C18_LLMFailureSurfaced ==
    /\ (ret.op = "ask" /\ ret.user_query # "" /\ ret.invoked.exc # NoExc) =>
            (truthy(ret.error) /\ ~ret.appended)
    /\ (ret.op = "auto" /\ ret.invoked.exc # NoExc) =>
            (truthy(ret.error) /\ ~ret.appended)
    /\ (ret.op = "generate_dashboard"
            /\ SomeFails(ret.answers)) =>
            (truthy(ret.error) /\ ~ret.success)
    /\ (ret.op = "generate_report" /\ SomeFails(ret.completions)) =>
            (truthy(ret.error) /\ ~ret.success)

-----------------------------------------------------------------------------
(* Claims about the visualization history, under SpecCharts *)

\* the value the code itself produces: its binding of result, fig or chart
OwnResult(code) ==
    IF AssignedBy(code, "result") # Unbound THEN AssignedBy(code, "result")
    ELSE IF AssignedBy(code, "fig") # Unbound THEN AssignedBy(code, "fig")
    ELSE IF AssignedBy(code, "chart") # Unbound THEN AssignedBy(code, "chart")
    ELSE PyNone

\* the code runs to the end and produces a chart
SucceedsWithChart(code) ==
    /\ code.syntax_ok
    /\ Ran(code) = code.body
    /\ isinstance(OwnResult(code), {"Figure", "FigureWidget"})

\* C19: a manual execution appends one entry, the figure with the code that
\* produced it, when it succeeds with a chart, and nothing otherwise; no
\* other action changes the visualization history.
C19_AppendOnlyOwnChart ==
    [][LET before == session_state.visualizations
           after == session_state'.visualizations
           code == ret'.code_input
       IN  IF ret'.op = "execute"
           THEN IF SucceedsWithChart(code)
                THEN after = Append(before, [type |-> "plotly_figure",
                                             data |-> OwnResult(code), code |-> code])
                ELSE after = before
           ELSE after = before]_vars

\* C27: reset_data on a handler on which no load has succeeded returns False
\* and leaves the current table and the snapshot absent; is_loaded() is true
\* exactly when a load has succeeded on the handler.
C27_ResetBeforeLoadIsNoOp ==
    /\ (ret.op = "reset_data" /\ ~loaded.ok) =>
            /\ ret.value = PyBool(FALSE)
            /\ df = NoneRef
            /\ original_df = NoneRef
    /\ is_loaded <=> loaded.ok

\* C25: the table bound to df in the engine's namespace is the handler's
\* current table: when it is so before reset_data, or before a call of
\* execute_code, it is so after it.
C25_EngineSeesCurrentTable ==
    [][(/\ analysis_engine.built
        /\ analysis_engine.execution_context.df = df
        /\ ret'.op \in {"reset_data", "execute_code"})
       => analysis_engine'.execution_context.df = df']_vars

-----------------------------------------------------------------------------
(* Claims about the standard output stream around execute_code, under
   SpecThreads *)

\* what the code of a call prints, up to its fault
Printed(code) == exec(code, NoEngine.execution_context, heap).out

\* C24: when a call of execute_code returns, sys.stdout is the stream that was
\* installed when the call began, the call's private buffer holds exactly the
\* text its code printed, that text is not on the restored stream, and on the
\* failure path the returned output text is the traceback alone.
C24_StdoutRestoredOutputPrivate ==
    [][\A session \in Sessions :
        LET call == calls[session]
        IN  (call.line = "68" /\ calls'[session].line = "returned") =>
                /\ sys_stdout' = call.old_stdout
                /\ streams'[call.captured_output] = Printed(call.code)
                /\ streams'[call.old_stdout] = ""
                /\ call.fault # NoExc =>
                        call.output_text = PyStr(format_exc(call.fault))]_vars

-----------------------------------------------------------------------------
(* Claims about AutoDashboardGenerator._plan_visualizations, under SpecPlan *)

\* the data set has a column of one of these dtypes
HasDtype(dtypes, names) == \E c \in 1..Len(dtypes) : dtypes[c] \in names

\* C23: the plan has at most 7 slots, their positions are pairwise distinct,
\* their types are pie, bar, table or area; it is empty when the data set has
\* no numeric column, and it is the area chart alone when the data set has
\* numeric and date columns and no categorical column.
C23_PlanShape ==
    ret.op = "_plan_visualizations" =>
        LET plan == ret.plan
            numeric == HasDtype(ret.dtypes, {"int64", "float64"})
            dates == HasDtype(ret.dtypes, {"datetime64[ns]"})
            categorical == HasDtype(ret.dtypes, {"object", "bool"})
        IN  /\ Len(plan) <= 7
            /\ \A i, j \in 1..Len(plan) : plan[i].position = plan[j].position => i = j
            /\ \A i \in 1..Len(plan) : plan[i].type \in {"pie", "bar", "table", "area"}
            /\ ~numeric => plan = <<>>
            /\ (numeric /\ dates /\ ~categorical) =>
                    Len(plan) = 1 /\ plan[1].type = "area"

\* a plan was made for numeric and date columns alone: the area chart
C23_Witness ==
    /\ ret.op = "_plan_visualizations"
    /\ ret.structure.numeric_cols # <<>>
    /\ ret.structure.date_cols # <<>>
    /\ ret.structure.categorical_cols = <<>>
    /\ Len(ret.plan) = 1
    /\ ret.plan[1].position = "bottom_center"

\* ---------------------------------------------------------------------------
\* The agent and its tools before any data is loaded
\* ---------------------------------------------------------------------------

\* the calls of the agent and of its tools that need a table
AgentOps ==
    {"auto_analyze", "generate_auto_dashboard", "generate_report", "get_column_info",
     "generate_analysis_code"}

\* C26: with no data loaded, auto_analyze, generate_auto_dashboard and
\* generate_report return {'error': 'No data loaded'}, and the tools
\* ColumnInfoTool and GenerateCodeTool return their 'No data loaded' message;
\* none of them sends an LLM request, raises, or changes the handler
C26_NoDataNoRequests ==
    [][(~is_loaded /\ ret'.op \in AgentOps) =>
            /\ IF ret'.op \in {"get_column_info", "generate_analysis_code"}
               THEN ret'.value = PyStr("No data loaded. Please upload a CSV file first.")
               ELSE ret'.keys = {"error"} /\ ret'.error = PyStr("No data loaded")
            /\ ret'.requests = 0
            /\ ret'.raised = NoExc
            /\ UNCHANGED <<df, original_df, heap, analysis_engine, loaded>>]_vars

\* a dashboard was asked for before any load and the error mapping came back
C26_Witness ==
    /\ ret.op = "generate_auto_dashboard"
    /\ ~is_loaded
    /\ ret.keys = {"error"}
    /\ ret.error = PyStr("No data loaded")
    /\ ret.requests = 0

\* ---------------------------------------------------------------------------
\* The entries of a generated dashboard
\* ---------------------------------------------------------------------------

\* what the code of a slot produces when it is run on its own, in the
\* namespace of a new engine over the handler's table
RunAlone(code) == execute_code(AnalysisEngine(df), heap, code)

\* the entries of the dashboard returned that come from slots of the plan
SlotEntries == {i \in 1..Len(ret.visualizations) : ret.visualizations[i].type # "metrics"}

\* the slot of the plan at a position
SlotAt(position) == CHOOSE k \in 1..Len(ret.viz_plan) : ret.viz_plan[k].position = position

\* the LLM answered the request for slot k with code that produces a figure
Charted(k) ==
    /\ get_full_response(ret.answers[k]).raised = NoExc
    /\ LET own == RunAlone(CodeOf(get_full_response(ret.answers[k]).value.val))
       IN  /\ own.returned
           /\ ~truthy(own.error)
           /\ is_plotly_figure(own.result)

\* the request for slot k failed, or its code failed or produced no value
Failed(k) ==
    \/ get_full_response(ret.answers[k]).raised # NoExc
    \/ LET own == RunAlone(CodeOf(get_full_response(ret.answers[k]).value.val))
       IN  \/ ~own.returned
           \/ truthy(own.error)
           \/ own.result = PyNone

\* C21: every chart entry of the dashboard holds the figure that the code
\* stored in that entry produces; no entry holds a figure bound by the code of
\* another slot
C21_EntryHoldsOwnFigure ==
    ret.op = "generate_auto_dashboard" =>
        \A i \in SlotEntries :
            ret.visualizations[i].type = "plotly_figure" =>
                /\ RunAlone(ret.visualizations[i].code).returned
                /\ ret.visualizations[i].data = RunAlone(ret.visualizations[i].code).result

\* C22: generate_dashboard returns the mapping with visualizations, insights
\* and structure; every slot of the plan is attempted; a slot whose request or
\* code fails, or whose code produces no value, has no entry, and every slot
\* whose code produces a figure has one; the entries keep the order of the
\* plan, after the metrics entry
C22_SlotFailuresIsolated ==
    ret.op = "generate_auto_dashboard" =>
        /\ ret.raised = NoExc
        /\ ret.keys = {"visualizations", "insights", "structure"}
        /\ ret.requests = Len(ret.viz_plan)
        /\ ret.visualizations # <<>> /\ ret.visualizations[1].type = "metrics"
        /\ SlotEntries = 2..Len(ret.visualizations)
        /\ \A i, j \in SlotEntries :
                i < j => SlotAt(ret.visualizations[i].position)
                            < SlotAt(ret.visualizations[j].position)
        /\ \A k \in 1..Len(ret.viz_plan) :
                /\ Failed(k) => \A i \in SlotEntries :
                                    ret.visualizations[i].position # ret.viz_plan[k].position
                /\ Charted(k) => \E i \in SlotEntries :
                                    ret.visualizations[i].position = ret.viz_plan[k].position

====
